---- MODULE Spec2Model ----
(***************************************************************************)
(* Navigation core of the colony simulation: the chunk partitioner         *)
(* (colonists/partitioning/partitioner.rs), the earlier whole-world        *)
(* partitioner with its PartitionGraph (colonists/partition.rs) and the    *)
(* hierarchical pathfinder (colonists/pathfinding.rs).                     *)
(*                                                                         *)
(* The world is one layer of voxels <<x, y, z>> cut into chunks along x.   *)
(* The terrain store, the NavigationGraph mutators, flood_fill_i32 and     *)
(* astar are not part of the sources at hand; they are modelled from the   *)
(* design document and marked so in the model map.                         *)
(***************************************************************************)
EXTENDS Integers, Sequences, FiniteSets, TLC

VARIABLES
    flags,          \* terrain: voxel -> capability mask (get_block_flags)
    pid,            \* terrain: voxel -> partition id, None when unset
    partitions,     \* NavigationGraph: partition id -> Partition record
    regions,        \* NavigationGraph: region id -> Region record
    cur_id,         \* NavigationGraph: last partition id handed out
    cur_region_id,  \* NavigationGraph: last region id handed out
    terrain_block,  \* partition.rs terrain: voxel -> block type
    partition_of,   \* partition.rs terrain: voxel -> partition id, NONE when unset
    pg_partitions,  \* PartitionGraph.partitions
    pg_cur_id,      \* PartitionGraph.cur_id
    revision,       \* which partitioner the build runs
    last,           \* the event handled last
    rebuilds,       \* number of partitioner runs so far
    edits,          \* number of terrain edits so far
    edited,         \* chunk -> a voxel of it was edited after its last rebuild
    merge_call      \* the last merge of the flood fill: the ids and the locals

ng_vars == <<pid, partitions, regions, cur_id, cur_region_id>>
pg_vars == <<partition_of, pg_partitions, pg_cur_id>>
nav_vars == <<flags, terrain_block, ng_vars, pg_vars, revision, last, rebuilds,
              edits, edited, merge_call>>

-----------------------------------------------------------------------------
(* Bounds of the model *)

MaxRebuilds == 3
MaxEdits == 2

-----------------------------------------------------------------------------
(* Geometry: Terrain, ndshape *)

Xs == {0, 1, 2, 3}
Ys == {0}
Zs == {0, 1}
chunk_size == Cardinality(Zs)
chunk_count == Cardinality(Xs) \div chunk_size
Chunks == 0 .. (chunk_count - 1)

Voxels == {<<x, y, z>> : x \in Xs, y \in Ys, z \in Zs}

is_oob(v) == v \notin Voxels

\* [chunk_idx, block_idx] of a world position
chunk_of(v) == v[1] \div chunk_size
block_of(v) == (v[1] % chunk_size) + chunk_size * (v[2] + Cardinality(Ys) * v[3])
get_block_indexes(v) == <<chunk_of(v), block_of(v)>>

chunk_shape_size == chunk_size * Cardinality(Ys) * Cardinality(Zs)

get_block_world_pos(chunk_idx, block_idx) ==
    CHOOSE v \in Voxels : get_block_indexes(v) = <<chunk_idx, block_idx>>

ChunkVoxels(chunk_idx) == {v \in Voxels : chunk_of(v) = chunk_idx}

-----------------------------------------------------------------------------
(* Capability masks: PartitionFlags, a bit set *)

NONE == 0
WALK == 1
FLY == 2
Masks == {NONE, WALK, FLY}

BitAnd(a, b) ==
    ((a % 2) * (b % 2)) + 2 * (((a \div 2) % 2) * ((b \div 2) % 2))

\* Option::None of a voxel's partition id
None == 0

get_block_flags(v) == IF is_oob(v) THEN NONE ELSE flags[v]

-----------------------------------------------------------------------------
(* NavigationGraph.  A graph value w carries the graph together with the   *)
(* terrain's partition ids, the two resources the partitioner mutates.     *)

World == [pid |-> pid, partitions |-> partitions, regions |-> regions,
          cur_id |-> cur_id, cur_region_id |-> cur_region_id]

Remove(f, ids) == [i \in (DOMAIN f) \ ids |-> f[i]]

create_region(w, region_flags) ==
    LET id == w.cur_region_id + 1
    IN  [w EXCEPT !.cur_region_id = id,
                  !.regions = w.regions @@
                      (id :> [flags |-> region_flags, partition_ids |-> {},
                              neighbor_ids |-> {}])]

create_partition(w, region_id, chunk_idx, partition_flags) ==
    LET id == w.cur_id + 1
    IN  [w EXCEPT !.cur_id = id,
                  !.partitions = w.partitions @@
                      (id :> [chunk_idx |-> chunk_idx, region_id |-> region_id,
                              flags |-> partition_flags, blocks |-> {},
                              neighbor_ids |-> {}, is_computed |-> FALSE]),
                  !.regions[region_id].partition_ids = @ \cup {id}]

assign_block(w, partition_id, v) ==
    [w EXCEPT !.partitions[partition_id].blocks = @ \cup {v}]

set_partition_id(w, v, partition_id) == [w EXCEPT !.pid[v] = partition_id]

unset_partition_id(w, v) == [w EXCEPT !.pid[v] = None]

set_region_neighbors(w, a, b) ==
    IF a = b THEN w
    ELSE [w EXCEPT !.regions[a].neighbor_ids = @ \cup {b},
                   !.regions[b].neighbor_ids = @ \cup {a}]

\* All partitions of region `from` move to region `into`; `from` is removed.
merge_regions(w, into, from) ==
    LET moved == w.regions[from].partition_ids
        nbrs  == (w.regions[from].neighbor_ids \cup w.regions[into].neighbor_ids)
                 \ {from, into}
        regs  == Remove(w.regions, {from})
    IN  [w EXCEPT
          !.partitions = [p \in DOMAIN w.partitions |->
                            IF p \in moved
                            THEN [w.partitions[p] EXCEPT !.region_id = into]
                            ELSE w.partitions[p]],
          !.regions = [r \in DOMAIN regs |->
                         IF r = into
                         THEN [regs[r] EXCEPT
                                 !.partition_ids = @ \cup moved,
                                 !.neighbor_ids = nbrs]
                         ELSE [regs[r] EXCEPT
                                 !.neighbor_ids =
                                    IF from \in @ THEN (@ \ {from}) \cup {into}
                                    ELSE @]]]

\* Returns [w, ret]: ret is the region id the caller should track, or None.
set_partition_neighbors(w, a, b) ==
    LET w1 == [w EXCEPT !.partitions[a].neighbor_ids = @ \cup {b},
                        !.partitions[b].neighbor_ids = @ \cup {a}]
        ra == w.partitions[a].region_id
        rb == w.partitions[b].region_id
    IN  IF ra = rb THEN [w |-> w1, ret |-> None]
        ELSE IF w.partitions[a].flags = w.partitions[b].flags
        THEN [w |-> merge_regions(w1, rb, ra), ret |-> rb]
        ELSE [w |-> set_region_neighbors(w1, ra, rb), ret |-> None]

\* The region of a removed partition loses it, and goes when it was the last.
drop_from_region(w, region_id, partition_id) ==
    IF w.regions[region_id].partition_ids \subseteq {partition_id}
    THEN [w EXCEPT !.regions =
            [r \in (DOMAIN w.regions) \ {region_id} |->
                [w.regions[r] EXCEPT !.neighbor_ids = @ \ {region_id}]]]
    ELSE [w EXCEPT !.regions[region_id].partition_ids = @ \ {partition_id}]

\* Returns [w, partition_id, region_id] of the survivor.
merge_partitions(w, a, b) ==
    LET pa   == w.partitions[a]
        pb   == w.partitions[b]
        keep == IF Cardinality(pa.blocks) > Cardinality(pb.blocks) THEN a ELSE b
        gone == IF keep = a THEN b ELSE a
        pk   == w.partitions[keep]
        pg   == w.partitions[gone]
        nbrs == (pk.neighbor_ids \cup pg.neighbor_ids) \ {keep, gone}
        rest == Remove(w.partitions, {gone})
        w1   == [w EXCEPT
                  !.partitions = [p \in DOMAIN rest |->
                      IF p = keep
                      THEN [pk EXCEPT !.blocks = @ \cup pg.blocks,
                                      !.neighbor_ids = nbrs]
                      ELSE [rest[p] EXCEPT !.neighbor_ids =
                              IF gone \in @ THEN (@ \ {gone}) \cup {keep} ELSE @]],
                  !.pid = [v \in DOMAIN w.pid |->
                             IF w.pid[v] = gone THEN keep ELSE w.pid[v]]]
        w2   == IF pg.region_id = pk.region_id
                THEN [w1 EXCEPT !.regions[pk.region_id].partition_ids = @ \ {gone}]
                ELSE drop_from_region(w1, pg.region_id, gone)
    IN  [w |-> w2, partition_id |-> keep, region_id |-> pk.region_id]

RECURSIVE drop_all_from_region(_, _, _)
drop_all_from_region(w, ids, old) ==
    IF ids = {} THEN w
    ELSE LET p == CHOOSE q \in ids : TRUE
         IN  drop_all_from_region(
                 drop_from_region(w, old[p].region_id, p), ids \ {p}, old)

\* Returns [w, cleanups]: the graph without the chunk's partitions, and the
\* removed Partition records.
delete_partitions_for_chunk(w, chunk_idx) ==
    LET ids  == {p \in DOMAIN w.partitions : w.partitions[p].chunk_idx = chunk_idx}
        rest == Remove(w.partitions, ids)
        w1   == [w EXCEPT !.partitions =
                    [p \in DOMAIN rest |->
                        [rest[p] EXCEPT !.neighbor_ids = @ \ ids]]]
    IN  [w |-> drop_all_from_region(w1, ids, w.partitions),
         cleanups |-> {w.partitions[p] : p \in ids}]

-----------------------------------------------------------------------------
(* common::flood_fill_i32: the closure decides whether the six face        *)
(* neighbours of a position are visited in turn.                           *)

\* Statements run one after the other: `first` is computed to its end before
\* `rest`, which reads it, is started.
in_order(first, rest) == IF DOMAIN first = DOMAIN first THEN rest ELSE rest

Neighbors6(v) ==
    << <<v[1] + 1, v[2], v[3]>>, <<v[1] - 1, v[2], v[3]>>,
       <<v[1], v[2] + 1, v[3]>>, <<v[1], v[2] - 1, v[3]>>,
       <<v[1], v[2], v[3] + 1>>, <<v[1], v[2], v[3] - 1>> >>

-----------------------------------------------------------------------------
(* partitioner.rs: the flood fill closure of `partition`.  s carries the   *)
(* closure's captured state: the graph and terrain (w) and the locals      *)
(* partition_id and region_id.  Returns the new state and the closure's    *)
(* result.                                                                 *)

\* a closure that links the partition of the neighbour, whatever its mask
\* and chunk, and never merges
fill_assigned_links_only(s, chunk_idx, block_flags, n) ==
    LET npartition_id == s.w.pid[n]
        nblock_flags  == get_block_flags(n)
    IN  IF npartition_id = s.partition_id THEN [s |-> s, ret |-> FALSE]
        ELSE IF nblock_flags = NONE THEN [s |-> s, ret |-> FALSE]
        ELSE LET r == set_partition_neighbors(s.w, s.partition_id, npartition_id)
             IN  [s |-> [s EXCEPT !.w = r.w,
                                  !.region_id = IF r.ret # None THEN r.ret ELSE @],
                  ret |-> FALSE]

\* a closure that merges partitions of the same mask across the border of
\* the chunk
fill_assigned_across_chunks(s, chunk_idx, block_flags, n) ==
    LET npartition_id == s.w.pid[n]
        nblock_flags  == get_block_flags(n)
        flag_diff     == nblock_flags # block_flags
    IN  IF npartition_id = s.partition_id THEN [s |-> s, ret |-> FALSE]
        ELSE IF nblock_flags = NONE THEN [s |-> s, ret |-> FALSE]
        ELSE IF flag_diff
        THEN LET r == set_partition_neighbors(s.w, s.partition_id, npartition_id)
             IN  [s |-> [s EXCEPT !.w = r.w,
                                  !.region_id = IF r.ret # None THEN r.ret ELSE @],
                  ret |-> FALSE]
        ELSE LET r == merge_partitions(s.w, s.partition_id, npartition_id)
             IN  [s |-> [w |-> r.w, partition_id |-> r.partition_id,
                         region_id |-> r.region_id],
                  ret |-> TRUE]

\* a closure that links the partitions of one chunk only
fill_assigned_within_chunk(s, chunk_idx, block_flags, n) ==
    LET npartition_id == s.w.pid[n]
        nblock_flags  == get_block_flags(n)
        flag_diff     == nblock_flags # block_flags
        chunk_diff    == chunk_of(n) # chunk_idx
    IN  IF npartition_id = s.partition_id THEN [s |-> s, ret |-> FALSE]
        ELSE IF nblock_flags = NONE \/ chunk_diff THEN [s |-> s, ret |-> FALSE]
        ELSE IF flag_diff
        THEN LET r == set_partition_neighbors(s.w, s.partition_id, npartition_id)
             IN  [s |-> [s EXCEPT !.w = r.w,
                                  !.region_id = IF r.ret # None THEN r.ret ELSE @],
                  ret |-> FALSE]
        ELSE LET r == merge_partitions(s.w, s.partition_id, npartition_id)
             IN  [s |-> [w |-> r.w, partition_id |-> r.partition_id,
                         region_id |-> r.region_id],
                  ret |-> TRUE]

\* a closure that keeps its own region id after its region was merged away
fill_assigned_stale_region(s, chunk_idx, block_flags, n) ==
    LET npartition_id == s.w.pid[n]
        nblock_flags  == get_block_flags(n)
        flag_diff     == nblock_flags # block_flags
        chunk_diff    == chunk_of(n) # chunk_idx
    IN  IF npartition_id = s.partition_id THEN [s |-> s, ret |-> FALSE]
        ELSE IF nblock_flags = NONE THEN [s |-> s, ret |-> FALSE]
        ELSE IF flag_diff \/ chunk_diff
        THEN LET r == set_partition_neighbors(s.w, s.partition_id, npartition_id)
             IN  [s |-> [s EXCEPT !.w = r.w], ret |-> FALSE]
        ELSE LET r == merge_partitions(s.w, s.partition_id, npartition_id)
             IN  [s |-> [w |-> r.w, partition_id |-> r.partition_id,
                         region_id |-> r.region_id],
                  ret |-> TRUE]

\* lines 96-125: the neighbour already has a partition id
fill_assigned(s, chunk_idx, block_flags, n) ==
    LET npartition_id == s.w.pid[n]
        nblock_flags  == get_block_flags(n)
        flag_diff     == nblock_flags # block_flags
        chunk_diff    == chunk_of(n) # chunk_idx
    IN  IF npartition_id = s.partition_id THEN [s |-> s, ret |-> FALSE]
        ELSE IF nblock_flags = NONE THEN [s |-> s, ret |-> FALSE]
        ELSE IF flag_diff \/ chunk_diff
        THEN LET r == set_partition_neighbors(s.w, s.partition_id, npartition_id)
             IN  [s |-> [s EXCEPT !.w = r.w,
                                  !.region_id = IF r.ret # None THEN r.ret ELSE @],
                  ret |-> FALSE]
        ELSE LET r == merge_partitions(s.w, s.partition_id, npartition_id)
             IN  [s |-> [w |-> r.w, partition_id |-> r.partition_id,
                         region_id |-> r.region_id],
                  ret |-> TRUE]

\* fill_unassigned without the comparison of the capability masks
fill_unassigned_any_flags(s, chunk_idx, block_flags, n) ==
    LET nblock_flags == get_block_flags(n)
        nchunk_idx   == chunk_of(n)
    IN  IF nblock_flags = NONE THEN [s |-> s, ret |-> FALSE]
        ELSE IF nchunk_idx # chunk_idx
        THEN LET w2 == create_partition(s.w, s.region_id, nchunk_idx, nblock_flags)
                 w3 == set_partition_id(w2, n, w2.cur_id)
                 w4 == assign_block(w3, w2.cur_id, n)
             IN  [s |-> [s EXCEPT !.w = w4], ret |-> FALSE]
        ELSE LET w1 == set_partition_id(s.w, n, s.partition_id)
                 w2 == assign_block(w1, s.partition_id, n)
             IN  [s |-> [s EXCEPT !.w = w2], ret |-> TRUE]

\* lines 127-169: the neighbour has no partition id yet
fill_unassigned(s, chunk_idx, block_flags, n) ==
    LET nblock_flags == get_block_flags(n)
        nchunk_idx   == chunk_of(n)
        flag_diff    == nblock_flags # block_flags
        chunk_diff   == nchunk_idx # chunk_idx
    IN  IF nblock_flags = NONE THEN [s |-> s, ret |-> FALSE]
        ELSE IF flag_diff \/ chunk_diff
        THEN LET w1 == IF flag_diff
                       THEN LET wr == create_region(s.w, nblock_flags)
                            IN  set_region_neighbors(wr, s.region_id, wr.cur_region_id)
                       ELSE s.w
                 nregion_id == IF flag_diff THEN w1.cur_region_id ELSE s.region_id
                 w2 == create_partition(w1, nregion_id, nchunk_idx, nblock_flags)
                 npartition_id == w2.cur_id
                 w3 == set_partition_id(w2, n, npartition_id)
                 w4 == assign_block(w3, npartition_id, n)
             IN  [s |-> [s EXCEPT !.w = w4], ret |-> FALSE]
        ELSE LET w1 == set_partition_id(s.w, n, s.partition_id)
                 w2 == assign_block(w1, s.partition_id, n)
             IN  [s |-> [s EXCEPT !.w = w2], ret |-> TRUE]

\* lines 83-170
fill(s, chunk_idx, block, block_flags, n) ==
    IF is_oob(n) THEN [s |-> s, ret |-> FALSE]
    ELSE IF n = block THEN [s |-> s, ret |-> TRUE]
    ELSE IF s.w.pid[n] # None THEN fill_assigned(s, chunk_idx, block_flags, n)
    ELSE fill_unassigned(s, chunk_idx, block_flags, n)

\* common::flood_fill_i32 driving the closure: a position is offered to the
\* closure, and when the closure accepts it its six neighbours are offered
\* in turn, each with everything reached from it.
RECURSIVE flood_fill_i32(_, _, _, _, _)
RECURSIVE flood_neighbors_i32(_, _, _, _, _, _)
flood_neighbors_i32(nb, i, s, chunk_idx, block, block_flags) ==
    IF i = 0 THEN s
    ELSE LET t == flood_fill_i32(nb[i], s, chunk_idx, block, block_flags)
         IN  in_order(t, flood_neighbors_i32(nb, i - 1, t, chunk_idx, block,
                                             block_flags))

flood_fill_i32(n, s, chunk_idx, block, block_flags) ==
    LET r == fill(s, chunk_idx, block, block_flags, n)
    IN  IF ~r.ret THEN r.s
        ELSE flood_neighbors_i32(Neighbors6(n), 6, r.s, chunk_idx, block,
                                 block_flags)

\* lines 58-70: the seed's partition, created when the seed has none
seed_partition(w, chunk_idx, block, block_flags) ==
    IF w.pid[block] # None THEN w
    ELSE LET w1 == create_region(w, block_flags)
             w2 == create_partition(w1, w1.cur_region_id, chunk_idx, block_flags)
             w3 == set_partition_id(w2, block, w2.cur_id)
         IN  assign_block(w3, w2.cur_id, block)

\* a scan that floods the partition of a seed and leaves it uncomputed
scan_block_unmarked(w, chunk_idx, block_idx) ==
    LET block       == get_block_world_pos(chunk_idx, block_idx)
        block_flags == get_block_flags(block)
    IN  IF block_flags = NONE THEN w
        ELSE LET w1 == seed_partition(w, chunk_idx, block, block_flags)
                 partition_id == w1.pid[block]
             IN  IF w1.partitions[partition_id].is_computed THEN w1
                 ELSE flood_fill_i32(
                          block,
                          [w |-> w1, partition_id |-> partition_id,
                           region_id |-> w1.partitions[partition_id].region_id],
                          chunk_idx, block, block_flags).w

\* lines 49-175: one iteration of the scan over the chunk's blocks
scan_block(w, chunk_idx, block_idx) ==
    LET block       == get_block_world_pos(chunk_idx, block_idx)
        block_flags == get_block_flags(block)
    IN  IF block_flags = NONE THEN w
        ELSE LET w1 == seed_partition(w, chunk_idx, block, block_flags)
                 partition_id == w1.pid[block]
             IN  IF w1.partitions[partition_id].is_computed THEN w1
                 ELSE LET s == flood_fill_i32(
                                 block,
                                 [w |-> w1, partition_id |-> partition_id,
                                  region_id |-> w1.partitions[partition_id].region_id],
                                 chunk_idx, block, block_flags)
                      IN  [s.w EXCEPT !.partitions[s.partition_id].is_computed = TRUE]

RECURSIVE scan_chunk(_, _, _)
scan_chunk(w, chunk_idx, block_idx) ==
    IF block_idx >= chunk_shape_size THEN w
    ELSE LET w1 == scan_block(w, chunk_idx, block_idx)
         IN  in_order(w1, scan_chunk(w1, chunk_idx, block_idx + 1))

\* cleanup_blocks that passes over the voxels whose mask is empty by now
cleanup_blocks_navigable_only(w, chunk_idx, blocks) ==
    [w EXCEPT !.pid =
        [v \in Voxels |->
            IF \E b \in blocks :
                   /\ v = get_block_world_pos(chunk_idx, block_of(b))
                   /\ get_block_flags(v) # NONE
            THEN None ELSE w.pid[v]]]

\* lines 41-46: the voxels of the removed partitions lose their partition id
RECURSIVE cleanup_blocks(_, _, _)
cleanup_blocks(w, chunk_idx, blocks) ==
    IF blocks = {} THEN w
    ELSE LET v == CHOOSE b \in blocks : TRUE
         IN  cleanup_blocks(
                 unset_partition_id(
                     w, get_block_world_pos(chunk_idx, block_of(v))),
                 chunk_idx, blocks \ {v})

\* a handling that scans the chunk only when it had no partitions to delete
rebuild_chunk_scan_if_clean(w, chunk_idx) ==
    LET d  == delete_partitions_for_chunk(w, chunk_idx)
        w1 == cleanup_blocks(d.w, chunk_idx, UNION {c.blocks : c \in d.cleanups})
    IN  IF d.cleanups # {} THEN w1 ELSE scan_chunk(w1, chunk_idx, 0)

\* lines 34-175: the handling of one PartitionEvent
rebuild_chunk(w, chunk_idx) ==
    LET d  == delete_partitions_for_chunk(w, chunk_idx)
        w1 == cleanup_blocks(d.w, chunk_idx, UNION {c.blocks : c \in d.cleanups})
    IN  scan_chunk(w1, chunk_idx, 0)

-----------------------------------------------------------------------------
(* partition.rs: the whole-world partitioner and its PartitionGraph.  Its  *)
(* world has three layers, since a block can be navigated when it is       *)
(* empty, the block above it is empty and the block below it is filled.    *)

Ys3 == {0, 1, 2}
Voxels3 == {<<x, y, z>> : x \in Xs, y \in Ys3, z \in Zs}

U16 == 65536

\* y - 1 on a u32: 0 wraps to 2^32 - 1, a position above every world, which
\* is written -1 here (as far outside the world)
wrapping_dec(y) == IF y >= 1 THEN y - 1 ELSE -1

block_of3(v) == (v[1] % chunk_size) + chunk_size * (v[2] + Cardinality(Ys3) * v[3])
chunk_shape_size3 == chunk_size * Cardinality(Ys3) * Cardinality(Zs)
get_block_world_pos3(chunk_idx, block_idx) ==
    CHOOSE v \in Voxels3 : chunk_of(v) = chunk_idx /\ block_of3(v) = block_idx

\* Block::OOB stands for every position outside the world
get_block(v) == IF v \in Voxels3 THEN terrain_block[v] ELSE "OOB"
is_empty(b) == b = "EMPTY"
is_filled(b) == b = "FILLED"

Graph == [tp |-> partition_of, partitions |-> pg_partitions, cur_id |-> pg_cur_id]

\* PartitionGraph::create_partition, lines 76-89
pg_create_partition(g, chunk_idx) ==
    LET id == (g.cur_id + 1) % U16
    IN  [g EXCEPT !.cur_id = id,
                  !.partitions =
                      (id :> [chunk_idx |-> chunk_idx, neighbors |-> {},
                              is_computed |-> FALSE, blocks |-> << >>])
                      @@ g.partitions]

\* PartitionGraph::is_partition_computed, lines 91-96
is_partition_computed(g, id) ==
    IF id \in DOMAIN g.partitions THEN g.partitions[id].is_computed ELSE FALSE

\* PartitionGraph::set_partition_computed, lines 98-102
set_partition_computed(g, id, value) ==
    IF id \in DOMAIN g.partitions
    THEN [g EXCEPT !.partitions[id].is_computed = value]
    ELSE g

\* PartitionGraph::set_block and Partition::add_block, lines 104-108, 23-25
set_block(g, partition_id, block_idx) ==
    IF partition_id \in DOMAIN g.partitions
    THEN [g EXCEPT !.partitions[partition_id].blocks = Append(@, block_idx)]
    ELSE g

\* set_neighbors that records the link on one side only
set_neighbors_one_sided(g, a_id, b_id) ==
    [g EXCEPT !.partitions[a_id].neighbors = @ \cup {b_id}]

\* PartitionGraph::set_neighbors, lines 110-116
set_neighbors(g, a_id, b_id) ==
    LET g1 == [g EXCEPT !.partitions[a_id].neighbors = @ \cup {b_id}]
    IN  [g1 EXCEPT !.partitions[b_id].neighbors = @ \cup {a_id}]

set_partition(g, v, partition_id) == [g EXCEPT !.tp[v] = partition_id]

\* lines 199-212: the navigability test of a neighbour in the flood fill
is_navigable(v, below) ==
    /\ is_empty(get_block(v))
    /\ is_empty(get_block(<<v[1], v[2] + 1, v[3]>>))
    /\ is_filled(get_block(below))

\* lines 175-244: the flood fill closure
pg_fill(s, chunk_idx, block, n) ==
    IF n \notin Voxels3 THEN [s |-> s, ret |-> FALSE]
    ELSE IF n = block THEN [s |-> s, ret |-> TRUE]
    ELSE
      LET nchunk_idx    == chunk_of(n)
          nblock_idx    == block_of3(n)
          npartition_id == s.g.tp[n]
      IN  IF npartition_id = s.partition_id THEN [s |-> s, ret |-> FALSE]
          ELSE IF ~is_navigable(n, <<n[1], n[2] - 1, n[3]>>)
          THEN [s |-> s, ret |-> FALSE]
          ELSE IF nchunk_idx # chunk_idx
          THEN IF npartition_id # None
               THEN [s |-> [s EXCEPT !.g = set_neighbors(s.g, s.partition_id,
                                                         npartition_id)],
                     ret |-> FALSE]
               ELSE LET g1 == pg_create_partition(s.g, nchunk_idx)
                        g2 == set_neighbors(g1, s.partition_id, g1.cur_id)
                        g3 == set_partition(g2, n, g1.cur_id)
                        g4 == set_block(g3, g1.cur_id, nblock_idx)
                    IN  [s |-> [s EXCEPT !.g = g4], ret |-> FALSE]
          ELSE LET g1 == set_partition(s.g, n, s.partition_id)
                   g2 == set_block(g1, s.partition_id, nblock_idx)
               IN  [s |-> [s EXCEPT !.g = g2], ret |-> TRUE]

\* common::flood_fill: as flood_fill_i32
RECURSIVE flood_fill(_, _, _, _)
RECURSIVE flood_neighbors(_, _, _, _, _)
flood_neighbors(nb, i, s, chunk_idx, block) ==
    IF i = 0 THEN s
    ELSE LET t == flood_fill(nb[i], s, chunk_idx, block)
         IN  in_order(t, flood_neighbors(nb, i - 1, t, chunk_idx, block))

flood_fill(n, s, chunk_idx, block) ==
    LET r == pg_fill(s, chunk_idx, block, n)
    IN  IF ~r.ret THEN r.s
        ELSE flood_neighbors(Neighbors6(n), 6, r.s, chunk_idx, block)

\* lines 130-146: the test of a block that has no partition.  is_empty of
\* the block itself is computed at line 134 and not looked at.
is_seed(v, below) ==
    /\ is_empty(get_block(<<v[1], v[2] + 1, v[3]>>))
    /\ is_filled(get_block(below))

\* lines 125-247: one iteration of the scan over a chunk's blocks
pg_scan_block(g, chunk_idx, block_idx) ==
    LET v     == get_block_world_pos3(chunk_idx, block_idx)
        below == <<v[1], wrapping_dec(v[2]), v[3]>>
        p_id  == g.tp[v]
    IN  IF p_id = None /\ ~is_seed(v, below) THEN g
        ELSE LET g1 == IF p_id = None
                       THEN LET c == pg_create_partition(g, chunk_idx)
                            IN  set_block(set_partition(c, v, c.cur_id),
                                          c.cur_id, block_idx)
                       ELSE g
                 partition_id == g1.tp[v]
             IN  IF is_partition_computed(g1, partition_id) THEN g1
                 ELSE LET s == flood_fill(v,
                                          [g |-> g1, partition_id |-> partition_id],
                                          chunk_idx, v)
                      IN  set_partition_computed(s.g, partition_id, TRUE)

RECURSIVE pg_scan_chunk(_, _, _)
pg_scan_chunk(g, chunk_idx, block_idx) ==
    IF block_idx >= chunk_shape_size3 THEN g
    ELSE LET g1 == pg_scan_block(g, chunk_idx, block_idx)
         IN  in_order(g1, pg_scan_chunk(g1, chunk_idx, block_idx + 1))

\* lines 122-249: the loop over the chunks
RECURSIVE pg_scan_world(_, _)
pg_scan_world(g, chunk_idx) ==
    IF chunk_idx >= chunk_count THEN g
    ELSE LET g1 == pg_scan_chunk(g, chunk_idx, 0)
         IN  in_order(g1, pg_scan_world(g1, chunk_idx + 1))

-----------------------------------------------------------------------------
(* pathfinding.rs: the hierarchical pathfinder.  Each agent is an entity    *)
(* carrying optional components; an optional component is a sequence of at *)
(* most one record.                                                        *)

VARIABLES
    pos,      \* agent -> voxel of its Transform
    req,      \* agent -> PathfindRequest, if any
    route,    \* agent -> PartitionPath, if any
    seg,      \* agent -> PathSegment, if any
    move,     \* agent -> BlockMove, if any
    out,      \* agent -> how the system that handled it last ended
    issued,   \* number of requests handed in so far
    asked,    \* agent -> the requests handed in so far
    interrupted, \* agent -> a request was handed in while it had path state
    reach,    \* agent -> the answer of the last reachability query made for it
    search,   \* the search under way, taken one expansion at a time
    items,    \* item -> its Transform, InPartition and the partitions listing it
    board,    \* actor -> the Blackboard and TaskState of its behavior
    crashed   \* a system has panicked

path_vars == <<pos, req, route, seg, move, out, issued, asked, interrupted,
              reach, search, items, board, crashed>>
vars == <<nav_vars, path_vars>>

\* the agents of the specifications with one agent, and of the one with two
Crew == {1}
Pair == {1, 2}

\* the entities that carry a Transform and the Actor marker
Agents == DOMAIN pos

\* scaled-down max_depth of the two searches, and the requests handed in
MaxDepthRegion == 2
MaxDepthSegment == 4
MaxRequests == 1

\* Distance::diagonal on integers: 10 for a step along an axis, 14 and 17 for
\* the diagonals of a face and of a cube
Abs(i) == IF i < 0 THEN -i ELSE i
Min2(a, b) == IF a < b THEN a ELSE b
Max2(a, b) == IF a < b THEN b ELSE a
diagonal(a, b) ==
    LET dx  == Abs(a[1] - b[1])
        dy  == Abs(a[2] - b[2])
        dz  == Abs(a[3] - b[3])
        lo  == Min2(dx, Min2(dy, dz))
        hi  == Max2(dx, Max2(dy, dz))
        mid == dx + dy + dz - lo - hi
    IN  17 * lo + 14 * (mid - lo) + 10 * (hi - mid)

\* the least value of a non-empty set of numbers
MinOf(S) == CHOOSE m \in S : \A n \in S : m <= n

\* a set of numbers as an ascending sequence
RECURSIVE SortedSeq(_)
SortedSeq(S) ==
    IF S = {} THEN << >>
    ELSE LET m == MinOf(S) IN <<m>> \o SortedSeq(S \ {m})

\* Terrain::get_partition_id; a position outside the world has none
get_partition_id(v) == IF is_oob(v) THEN None ELSE pid[v]

\* graph.get_flags: the mask of a partition, NONE for an unknown id
get_flags(partition_id) ==
    IF partition_id \in DOMAIN partitions
    THEN partitions[partition_id].flags ELSE NONE

\* Partition.extents: the bounding box of the blocks and its center
extents(partition_id) ==
    LET b == partitions[partition_id].blocks
    IN  [min |-> [i \in 1..3 |-> MinOf({v[i] : v \in b})],
         max |-> [i \in 1..3 |-> -MinOf({-v[i] : v \in b})]]

center(partition_id) ==
    LET e == extents(partition_id)
    IN  [i \in 1..3 |-> (e.min[i] + e.max[i]) \div 2]

\* extents.distance_to_edge: how far a position lies outside the box
distance_to_edge(partition_id, v) ==
    LET e == extents(partition_id)
        c == [i \in 1..3 |-> Max2(e.min[i], Min2(v[i], e.max[i]))]
    IN  diagonal(v, c)

-----------------------------------------------------------------------------
(* common::astar.  The search is given the start, the goal nodes, the      *)
(* neighbors of every node in the order they are enumerated, the cost of   *)
(* every edge, the heuristic of every node and max_depth.  The frontier is *)
(* kept in insertion order; the entry of least cost + heuristic is taken,  *)
(* the earliest of equals first.  A path is returned goal first and start  *)
(* last, which is how the cursors of the pathfinder consume it.            *)

\* index of the frontier entry taken next
least(open) ==
    CHOOSE i \in 1..Len(open) :
        \A j \in 1..Len(open) :
            open[i].f < open[j].f \/ (open[i].f = open[j].f /\ i <= j)

without(open, i) == SubSeq(open, 1, i - 1) \o SubSeq(open, i + 1, Len(open))

\* A value that is used more than once is computed once: it is bound as
\* the element of a singleton, and the result taken out of a singleton.

\* the neighbors of the expanded entry e enter the frontier when reached for
\* the first time or more cheaply than before
RECURSIVE push_neighbors(_, _, _, _, _, _)
push_neighbors(t, e, nbs, i, cost, heuristic) ==
    IF i > Len(nbs) THEN t
    ELSE LET step(n) ==
                 LET g == e.g + cost[<<e.node, n>>]
                 IN  IF n \in DOMAIN t.best /\ t.best[n] <= g THEN t
                     ELSE [open |-> Append(t.open,
                                           [node |-> n, g |-> g,
                                            f |-> g + heuristic[n],
                                            path |-> <<n>> \o e.path]),
                           best |-> (n :> g) @@ t.best]
             rest(t1) == push_neighbors(t1, e, nbs, i + 1, cost, heuristic)
         IN  CHOOSE r \in {rest(t1) : t1 \in {step(n) : n \in {nbs[i]}}} : TRUE

RECURSIVE astar_loop(_, _, _, _, _, _, _)
astar_loop(t, depth, goals, neighbors, cost, heuristic, max_depth) ==
    IF t.open = << >>
    THEN [is_success |-> FALSE, path |-> << >>, why |-> "frontier"]
    ELSE LET expand(i) ==
                 LET e == t.open[i]
                     rest(t1) == astar_loop(t1, depth + 1, goals, neighbors,
                                            cost, heuristic, max_depth)
                 IN  IF e.node \in goals
                     THEN [is_success |-> TRUE, path |-> e.path, why |-> "found"]
                     ELSE IF depth >= max_depth
                     THEN [is_success |-> FALSE, path |-> << >>, why |-> "max_depth"]
                     ELSE CHOOSE r \in
                              {rest(t1) : t1 \in
                                  {push_neighbors(
                                       [open |-> without(t.open, i),
                                        best |-> t.best],
                                       e, neighbors[e.node], 1, cost,
                                       heuristic)}} : TRUE
         IN  CHOOSE r \in {expand(i) : i \in {least(t.open)}} : TRUE

astar(start, goals, neighbors, cost, heuristic, max_depth) ==
    LET begun(t) == astar_loop(t, 0, goals, neighbors, cost, heuristic,
                               max_depth)
    IN  CHOOSE r \in
            {begun(t) : t \in
                {[open |-> <<[node |-> start, g |-> 0, f |-> heuristic[start],
                              path |-> <<start>>]>>,
                  best |-> (start :> 0)]}} : TRUE

-----------------------------------------------------------------------------
(* Region routing: the system `pathfinding`, lines 382-505 *)

\* neighbors whatever their mask
region_neighbors_any_mask(request_flags) ==
    [v \in DOMAIN partitions |-> SortedSeq(partitions[v].neighbor_ids)]

\* neighbors that take the partitions of the same chunk for linked
region_neighbors_within_chunk(request_flags) ==
    [v \in DOMAIN partitions |->
        SelectSeq(SortedSeq(partitions[v].neighbor_ids
                            \cup {n \in DOMAIN partitions \ {v} :
                                     partitions[n].chunk_idx
                                         = partitions[v].chunk_idx}),
                  LAMBDA n : BitAnd(get_flags(n), request_flags) # NONE)]

\* lines 456-466: the neighbors of a partition whose mask meets the request
region_neighbors(request_flags) ==
    [v \in DOMAIN partitions |->
        SelectSeq(SortedSeq(partitions[v].neighbor_ids),
                  LAMBDA n : BitAnd(get_flags(n), request_flags) # NONE)]

\* lines 482-490
region_cost ==
    [e \in (DOMAIN partitions) \X (DOMAIN partitions) |->
        diagonal(center(e[1]), center(e[2]))]

\* lines 467-481: goals are the destinations that have a partition
region_heuristic(goals) ==
    [a \in DOMAIN partitions |->
        MinOf({diagonal(center(a), goals[i]) : i \in DOMAIN goals})]

\* a routing that answers every request with the route of the partition the
\* requester stands in
pathfinding_entity_route_of_start(e) ==
    LET request == req[e][1]
        starting_partition_id == get_partition_id(pos[e])
    IN  IF starting_partition_id = None
        THEN [route |-> route[e], out |-> "NoStartingPartition", ret |-> FALSE]
        ELSE IF \A i \in DOMAIN request.goals :
                    get_partition_id(request.goals[i]) = None
        THEN [route |-> route[e], out |-> "NoGoalPartition", ret |-> FALSE]
        ELSE [route |-> <<[current |-> 1,
                           path |-> <<starting_partition_id>>,
                           goals |-> request.goals,
                           flags |-> request.flags]>>,
              out |-> "SingleNodeRoute", ret |-> FALSE]

\* lines 389-503: the body of the loop for the entity e; ret says that the
\* system returned
pathfinding_entity(e) ==
    LET request == req[e][1]
        start   == pos[e]
        goals   == SelectSeq(request.goals,
                             LAMBDA g : get_partition_id(g) # None)
        goal_partition_ids == {get_partition_id(goals[i]) : i \in DOMAIN goals}
        starting_partition_id == get_partition_id(start)
    IN  IF starting_partition_id = None
        THEN [route |-> route[e], out |-> "NoStartingPartition", ret |-> FALSE]
        ELSE IF goals = << >>
        THEN [route |-> route[e], out |-> "NoGoalPartition", ret |-> FALSE]
        ELSE IF starting_partition_id \in goal_partition_ids
        THEN [route |-> <<[current |-> 1,
                           path |-> <<starting_partition_id>>,
                           goals |-> request.goals,
                           flags |-> request.flags]>>,
              out |-> "SingleNodeRoute", ret |-> FALSE]
        ELSE LET routed(partition_path) ==
                     IF ~partition_path.is_success
                     THEN [route |-> route[e],
                           out |-> IF partition_path.why = "max_depth"
                                   THEN "RouteBudgetExceeded" ELSE "NoRoute",
                           ret |-> TRUE]
                     ELSE [route |-> <<[current |-> Len(partition_path.path) - 1,
                                        path |-> partition_path.path,
                                        goals |-> request.goals,
                                        flags |-> request.flags]>>,
                           out |-> "Routed", ret |-> FALSE]
             IN  CHOOSE r \in
                     {routed(partition_path) : partition_path \in
                         {astar(starting_partition_id, goal_partition_ids,
                                region_neighbors(request.flags), region_cost,
                                region_heuristic(goals), MaxDepthRegion)}} : TRUE

\* a loop that removes the request only where a route is inserted
RECURSIVE pathfinding_loop_keeps_request(_, _)
pathfinding_loop_keeps_request(st, todo) ==
    IF todo = << >> THEN st
    ELSE IF req[Head(todo)][1].goals = << >> THEN [st EXCEPT !.panic = TRUE]
    ELSE LET e   == Head(todo)
             r   == pathfinding_entity(e)
             st1 == [req   |-> [st.req EXCEPT
                                  ![e] = IF r.route = route[e] THEN @ ELSE << >>],
                     route |-> [st.route EXCEPT ![e] = r.route],
                     out   |-> [st.out EXCEPT ![e] = r.out],
                     panic |-> FALSE]
         IN  IF r.ret THEN st1
             ELSE pathfinding_loop_keeps_request(st1, Tail(todo))

\* line 388: the loop over the entities that carry a PathfindRequest; the
\* commands take effect when the system has run.  Line 399 reads goals[0]
\* and panics when the request has no destination.
RECURSIVE pathfinding_loop(_, _)
pathfinding_loop(st, todo) ==
    IF todo = << >> THEN st
    ELSE IF req[Head(todo)][1].goals = << >> THEN [st EXCEPT !.panic = TRUE]
    ELSE LET e   == Head(todo)
             handled(r) ==
                 LET st1 == [req   |-> [st.req EXCEPT ![e] = << >>],
                             route |-> [st.route EXCEPT ![e] = r.route],
                             out   |-> [st.out EXCEPT ![e] = r.out],
                             panic |-> FALSE]
                 IN  IF r.ret THEN st1 ELSE pathfinding_loop(st1, Tail(todo))
         IN  CHOOSE s \in {handled(r) : r \in {pathfinding_entity(e)}} : TRUE

-----------------------------------------------------------------------------
(* The reachability query: is_reachable, lines 325-380 *)

\* lines 350-367: the goals that have a center are the partitions of the
\* graph
reach_heuristic(goal_ids) ==
    [a \in DOMAIN partitions |->
        MinOf({diagonal(center(a), center(g)) :
                  g \in goal_ids \cap DOMAIN partitions})]

\* lines 331-379; the unwraps of lines 351 and 365 panic for a start that
\* is no partition of the graph and for goals none of which is one
is_reachable(start_id, goal_ids, query_flags) ==
    IF start_id \in goal_ids THEN [ret |-> TRUE, panic |-> FALSE]
    ELSE IF \/ start_id \notin DOMAIN partitions
            \/ goal_ids \cap DOMAIN partitions = {}
    THEN [ret |-> FALSE, panic |-> TRUE]
    ELSE [ret |-> astar(start_id, goal_ids, region_neighbors(query_flags),
                        region_cost, reach_heuristic(goal_ids),
                        MaxDepthRegion).is_success,
          panic |-> FALSE]

-----------------------------------------------------------------------------
(* Segment resolution: the system path_follow_partition, lines 158-323 *)

\* neighbors with every diagonal move, whatever lies at the corners
segment_neighbors_cut_corners(path_flags) ==
    [v \in Voxels |->
        SelectSeq(Neighbors6(v)
                  \o << <<v[1] - 1, v[2], v[3] - 1>>, <<v[1] + 1, v[2], v[3] - 1>>,
                        <<v[1] - 1, v[2], v[3] + 1>>, <<v[1] + 1, v[2], v[3] + 1>> >>,
                  LAMBDA p : BitAnd(get_flags(get_partition_id(p)),
                                    path_flags) # NONE)]

\* neighbors across the faces only, without the diagonal moves
segment_neighbors_orthogonal(path_flags) ==
    [v \in Voxels |->
        SelectSeq(Neighbors6(v),
                  LAMBDA p : BitAnd(get_flags(get_partition_id(p)),
                                    path_flags) # NONE)]

\* lines 236-290: the neighbors of a voxel for an agent of mask path_flags
segment_neighbors(path_flags) ==
    [v \in Voxels |->
        LET up      == <<v[1], v[2] + 1, v[3]>>
            down    == <<v[1], v[2] - 1, v[3]>>
            left    == <<v[1] - 1, v[2], v[3]>>
            right   == <<v[1] + 1, v[2], v[3]>>
            forward == <<v[1], v[2], v[3] - 1>>
            back    == <<v[1], v[2], v[3] + 1>>
            forward_left  == <<v[1] - 1, v[2], v[3] - 1>>
            forward_right == <<v[1] + 1, v[2], v[3] - 1>>
            back_left     == <<v[1] - 1, v[2], v[3] + 1>>
            back_right    == <<v[1] + 1, v[2], v[3] + 1>>
            f_clear == BitAnd(get_block_flags(forward), path_flags) # NONE
            r_clear == BitAnd(get_block_flags(right), path_flags) # NONE
            l_clear == BitAnd(get_block_flags(left), path_flags) # NONE
            b_clear == BitAnd(get_block_flags(back), path_flags) # NONE
            edges == <<up, down, left, right, forward, back>>
                     \o (IF f_clear /\ l_clear THEN <<forward_left>> ELSE << >>)
                     \o (IF f_clear /\ r_clear THEN <<forward_right>> ELSE << >>)
                     \o (IF b_clear /\ l_clear THEN <<back_left>> ELSE << >>)
                     \o (IF b_clear /\ r_clear THEN <<back_right>> ELSE << >>)
        IN  SelectSeq(edges,
                      LAMBDA p : BitAnd(get_flags(get_partition_id(p)),
                                        path_flags) # NONE)]

\* line 220
segment_cost == [e \in Voxels \X Voxels |-> diagonal(e[1], e[2])]

\* lines 221-235
segment_heuristic(is_last_partition, goal_positions, next_partition_id) ==
    [v \in Voxels |->
        IF is_last_partition
        THEN MinOf({diagonal(v, goal_positions[i]) : i \in DOMAIN goal_positions})
        ELSE distance_to_edge(next_partition_id, v)]

\* a segment resolution whose last leg ends at the first voxel met in the
\* last partition of the route
path_follow_partition_entity_to_partition(e) ==
    LET path == route[e][1]
        cur  == path.current - 1
        is_last_partition == cur <= 1
        current == IF is_last_partition THEN 0 ELSE cur
        goal_partition_id == path.path[(current - 1) + 1]
        next_partition_id == path.path[current + 1]
        is_goal == {p \in Voxels : get_partition_id(p) = next_partition_id}
    IN  IF path.current = 0
        THEN [route |-> << >>, seg |-> seg[e], req |-> req[e],
              out |-> "Completed", ret |-> FALSE, panic |-> FALSE]
        ELSE IF /\ ~is_last_partition
                /\ \/ goal_partition_id \notin DOMAIN partitions
                   \/ next_partition_id \notin DOMAIN partitions
        THEN [route |-> route[e], seg |-> seg[e], req |-> req[e],
              out |-> "Panic", ret |-> TRUE, panic |-> TRUE]
        ELSE LET result ==
                     astar(pos[e], is_goal, segment_neighbors(path.flags),
                           segment_cost,
                           segment_heuristic(is_last_partition, path.goals,
                                             next_partition_id),
                           MaxDepthSegment)
             IN  IF ~result.is_success
                 THEN [route |-> << >>, seg |-> seg[e],
                       req |-> <<[goals |-> path.goals, flags |-> path.flags]>>,
                       out |-> IF result.why = "max_depth"
                               THEN "SegmentBudgetExceeded" ELSE "NoSegment",
                       ret |-> TRUE, panic |-> FALSE]
                 ELSE [route |-> <<[path EXCEPT !.current = current]>>,
                       seg |-> <<[current |-> Len(result.path),
                                  blocks |-> result.path,
                                  flags |-> path.flags,
                                  goals |-> path.goals]>>,
                       req |-> req[e],
                       out |-> "Segment", ret |-> FALSE, panic |-> FALSE]

\* a resolution that sets the cursor of the segment one past its length
path_follow_partition_entity_cursor_past_end(e) ==
    LET path == route[e][1]
        cur  == path.current - 1
        is_last_partition == cur <= 1
        current == IF is_last_partition THEN 0 ELSE cur
        goal_partition_id == path.path[(current - 1) + 1]
        next_partition_id == path.path[current + 1]
        is_goal == IF is_last_partition
                   THEN {path.goals[i] : i \in DOMAIN path.goals}
                   ELSE {p \in Voxels : get_partition_id(p) = next_partition_id}
    IN  IF path.current = 0
        THEN [route |-> << >>, seg |-> seg[e], req |-> req[e],
              out |-> "Completed", ret |-> FALSE, panic |-> FALSE]
        ELSE IF /\ ~is_last_partition
                /\ \/ goal_partition_id \notin DOMAIN partitions
                   \/ next_partition_id \notin DOMAIN partitions
        THEN [route |-> route[e], seg |-> seg[e], req |-> req[e],
              out |-> "Panic", ret |-> TRUE, panic |-> TRUE]
        ELSE LET resolved(result) ==
                     IF ~result.is_success
                     THEN [route |-> << >>, seg |-> seg[e],
                           req |-> <<[goals |-> path.goals, flags |-> path.flags]>>,
                           out |-> IF result.why = "max_depth"
                                   THEN "SegmentBudgetExceeded" ELSE "NoSegment",
                           ret |-> TRUE, panic |-> FALSE]
                     ELSE [route |-> <<[path EXCEPT !.current = current]>>,
                           seg |-> <<[current |-> Len(result.path) + 1,
                                      blocks |-> result.path,
                                      flags |-> path.flags,
                                      goals |-> path.goals]>>,
                           req |-> req[e],
                           out |-> "Segment", ret |-> FALSE, panic |-> FALSE]
             IN  CHOOSE r \in
                     {resolved(result) : result \in
                         {astar(pos[e], is_goal, segment_neighbors(path.flags),
                                segment_cost,
                                segment_heuristic(is_last_partition, path.goals,
                                                  next_partition_id),
                                MaxDepthSegment)}} : TRUE

\* lines 165-321: the body of the loop for the entity e
path_follow_partition_entity(e) ==
    LET path == route[e][1]
        cur  == path.current - 1
        is_last_partition == cur <= 1
        current == IF is_last_partition THEN 0 ELSE cur
        goal_partition_id == path.path[(current - 1) + 1]
        next_partition_id == path.path[current + 1]
        is_goal == IF is_last_partition
                   THEN {path.goals[i] : i \in DOMAIN path.goals}
                   ELSE {p \in Voxels : get_partition_id(p) = next_partition_id}
    IN  IF path.current = 0
        THEN [route |-> << >>, seg |-> seg[e], req |-> req[e],
              out |-> "Completed", ret |-> FALSE, panic |-> FALSE]
        ELSE IF /\ ~is_last_partition
                /\ \/ goal_partition_id \notin DOMAIN partitions
                   \/ next_partition_id \notin DOMAIN partitions
        THEN [route |-> route[e], seg |-> seg[e], req |-> req[e],
              out |-> "Panic", ret |-> TRUE, panic |-> TRUE]
        ELSE LET resolved(result) ==
                     IF ~result.is_success
                     THEN [route |-> << >>, seg |-> seg[e],
                           req |-> <<[goals |-> path.goals, flags |-> path.flags]>>,
                           out |-> IF result.why = "max_depth"
                                   THEN "SegmentBudgetExceeded" ELSE "NoSegment",
                           ret |-> TRUE, panic |-> FALSE]
                     ELSE [route |-> <<[path EXCEPT !.current = current]>>,
                           seg |-> <<[current |-> Len(result.path),
                                      blocks |-> result.path,
                                      flags |-> path.flags,
                                      goals |-> path.goals]>>,
                           req |-> req[e],
                           out |-> "Segment", ret |-> FALSE, panic |-> FALSE]
             IN  CHOOSE r \in
                     {resolved(result) : result \in
                         {astar(pos[e], is_goal, segment_neighbors(path.flags),
                                segment_cost,
                                segment_heuristic(is_last_partition, path.goals,
                                                  next_partition_id),
                                MaxDepthSegment)}} : TRUE

\* line 164: the loop over the entities with a PartitionPath and no
\* PathSegment
RECURSIVE path_follow_partition_loop(_, _)
path_follow_partition_loop(st, todo) ==
    IF todo = << >> THEN st
    ELSE LET e   == Head(todo)
             handled(r) ==
                 LET st1 == [req   |-> [st.req EXCEPT ![e] = r.req],
                             route |-> [st.route EXCEPT ![e] = r.route],
                             seg   |-> [st.seg EXCEPT ![e] = r.seg],
                             out   |-> [st.out EXCEPT ![e] = r.out],
                             panic |-> r.panic]
                 IN  IF r.ret THEN st1
                     ELSE path_follow_partition_loop(st1, Tail(todo))
         IN  CHOOSE s \in {handled(r) : r \in {path_follow_partition_entity(e)}} :
                 TRUE

-----------------------------------------------------------------------------
(* Segment execution: path_follow_segment, lines 78-110, and                *)
(* path_follow_block, lines 53-76                                          *)

\* a segment step that orders the move without looking at the next voxel
path_follow_segment_entity_unchecked(e) ==
    LET path       == seg[e][1]
        current    == path.current - 1
        next_block == path.blocks[current + 1]
    IN  IF path.current = 0
        THEN [seg |-> << >>, route |-> route[e], req |-> req[e],
              move |-> move[e], out |-> "SegmentDone", ret |-> FALSE]
        ELSE [seg |-> <<[path EXCEPT !.current = current]>>,
              route |-> route[e], req |-> req[e],
              move |-> <<[target |-> next_block, speed |-> 8]>>,
              out |-> "Move", ret |-> FALSE]

\* a segment step that, on a stale voxel, leaves the region route in place
path_follow_segment_entity_keeps_route(e) ==
    LET path       == seg[e][1]
        current    == path.current - 1
        next_block == path.blocks[current + 1]
    IN  IF path.current = 0
        THEN [seg |-> << >>, route |-> route[e], req |-> req[e],
              move |-> move[e], out |-> "SegmentDone", ret |-> FALSE]
        ELSE IF BitAnd(get_block_flags(next_block), path.flags) = NONE
        THEN [seg |-> << >>, route |-> route[e],
              req |-> <<[goals |-> path.goals, flags |-> path.flags]>>,
              move |-> move[e], out |-> "StaleSegment", ret |-> TRUE]
        ELSE [seg |-> <<[path EXCEPT !.current = current]>>,
              route |-> route[e], req |-> req[e],
              move |-> <<[target |-> next_block, speed |-> 8]>>,
              out |-> "Move", ret |-> FALSE]

\* lines 84-108: the body of the loop for the entity e
path_follow_segment_entity(e) ==
    LET path       == seg[e][1]
        current    == path.current - 1
        next_block == path.blocks[current + 1]
    IN  IF path.current = 0
        THEN [seg |-> << >>, route |-> route[e], req |-> req[e],
              move |-> move[e], out |-> "SegmentDone", ret |-> FALSE]
        ELSE IF BitAnd(get_block_flags(next_block), path.flags) = NONE
        THEN [seg |-> << >>, route |-> << >>,
              req |-> <<[goals |-> path.goals, flags |-> path.flags]>>,
              move |-> move[e], out |-> "StaleSegment", ret |-> TRUE]
        ELSE [seg |-> <<[path EXCEPT !.current = current]>>,
              route |-> route[e], req |-> req[e],
              move |-> <<[target |-> next_block, speed |-> 8]>>,
              out |-> "Move", ret |-> FALSE]

\* line 83: the loop over the entities with a PathSegment and no BlockMove
RECURSIVE path_follow_segment_loop(_, _)
path_follow_segment_loop(st, todo) ==
    IF todo = << >> THEN st
    ELSE LET e   == Head(todo)
             r   == path_follow_segment_entity(e)
             st1 == [req   |-> [st.req EXCEPT ![e] = r.req],
                     route |-> [st.route EXCEPT ![e] = r.route],
                     seg   |-> [st.seg EXCEPT ![e] = r.seg],
                     move  |-> [st.move EXCEPT ![e] = r.move],
                     out   |-> [st.out EXCEPT ![e] = r.out]]
         IN  IF r.ret THEN st1 ELSE path_follow_segment_loop(st1, Tail(todo))

\* no entity has been handled by the system that runs
Idle == [e \in Agents |-> "Idle"]

-----------------------------------------------------------------------------
(* Actions *)

\* a rebuild that leaves the items of the deleted partitions without a
\* partition
rehome_none(it, ids, w) ==
    [i \in DOMAIN it |->
        IF it[i].listed \cap ids = {} \/ ~it[i].alive
        THEN [it[i] EXCEPT !.listed = @ \ ids]
        ELSE [it[i] EXCEPT !.listed = @ \ ids, !.in_partition = None]]

\* lines 37-46 and 177-202: the items of the deleted partitions ids are
\* collected; each one that still exists loses its InPartition and, when its
\* voxel has a partition in the rebuilt world w, is inserted into the items
\* of that partition and gets the InPartition of it
rehome(it, ids, w) ==
    [i \in DOMAIN it |->
        IF it[i].listed \cap ids = {} \/ ~it[i].alive
        THEN [it[i] EXCEPT !.listed = @ \ ids]
        ELSE IF w.pid[it[i].pos] = None
        THEN [it[i] EXCEPT !.listed = @ \ ids, !.in_partition = None]
        ELSE [it[i] EXCEPT !.listed = (@ \ ids) \cup {w.pid[it[i].pos]},
                           !.in_partition = w.pid[it[i].pos]]]

\* partitioner.rs `partition`, for one PartitionEvent {chunk_idx}
partition(chunk_idx) ==
    /\ revision = "NavigationGraph"
    /\ ~crashed
    /\ rebuilds < MaxRebuilds
    /\ \E w \in {rebuild_chunk(World, chunk_idx)} :
           /\ pid' = w.pid
           /\ partitions' = w.partitions
           /\ regions' = w.regions
           /\ cur_id' = w.cur_id
           /\ cur_region_id' = w.cur_region_id
           /\ items' = rehome(items,
                              {p \in DOMAIN partitions :
                                  partitions[p].chunk_idx = chunk_idx}, w)
    /\ rebuilds' = rebuilds + 1
    /\ last' = [kind |-> "partition", chunk_idx |-> chunk_idx]
    /\ edited' = [edited EXCEPT ![chunk_idx] = FALSE]
    /\ UNCHANGED <<flags, terrain_block, pg_vars, revision, board,
                   merge_call, edits, pos, req, route, seg, move, out,
                   issued, asked, interrupted, reach, search, crashed>>

\* A voxel edit that changes the capability mask of one voxel
EditVoxel(v, m) ==
    /\ revision = "NavigationGraph"
    /\ ~crashed
    /\ edits < MaxEdits
    /\ flags[v] # m
    /\ flags' = [flags EXCEPT ![v] = m]
    /\ edits' = edits + 1
    /\ last' = [kind |-> "edit", chunk_idx |-> chunk_of(v)]
    /\ edited' = [edited EXCEPT ![chunk_of(v)] = TRUE]
    /\ UNCHANGED <<terrain_block, ng_vars, pg_vars, revision, board,
                   merge_call, rebuilds, path_vars>>

\* partition.rs `partition`: one pass over the whole world, run once
\* In a build with overflow checks, y - 1 at line 142 panics for a block of
\* the bottom layer whose block above is empty; otherwise it wraps.
pg_partition ==
    /\ revision = "PartitionGraph"
    /\ rebuilds = 0
    /\ ~crashed
    /\ \E overflow_checks \in BOOLEAN :
           IF /\ overflow_checks
              /\ \E v \in Voxels3 :
                     v[2] = 0 /\ is_empty(get_block(<<v[1], 1, v[3]>>))
           THEN /\ crashed' = TRUE
                /\ last' = [kind |-> "panic", chunk_idx |-> chunk_count]
                /\ UNCHANGED <<pg_vars, edited>>
           ELSE /\ \E g \in {pg_scan_world(Graph, 0)} :
                       /\ partition_of' = g.tp
                       /\ pg_partitions' = g.partitions
                       /\ pg_cur_id' = g.cur_id
                /\ last' = [kind |-> "partition", chunk_idx |-> chunk_count]
                /\ edited' = [c \in Chunks |-> FALSE]
                /\ crashed' = crashed
    /\ rebuilds' = rebuilds + 1
    /\ UNCHANGED <<flags, terrain_block, ng_vars, revision, board,
                   merge_call, edits, pos, req, route, seg, move, out, issued, asked,
                   interrupted, reach, search, items>>

\* A voxel edit that digs out or fills one block
EditBlock(v, b) ==
    /\ revision = "PartitionGraph"
    /\ ~crashed
    /\ edits < MaxEdits
    /\ terrain_block[v] # b
    /\ terrain_block' = [terrain_block EXCEPT ![v] = b]
    /\ edits' = edits + 1
    /\ last' = [kind |-> "edit", chunk_idx |-> chunk_of(v)]
    /\ edited' = [edited EXCEPT ![chunk_of(v)] = TRUE]
    /\ UNCHANGED <<flags, ng_vars, pg_vars, revision, board,
                   merge_call, rebuilds, path_vars>>

\* A flat platform every voxel of which can be walked on
Flat == [v \in Voxels |-> WALK]
Flat3 == [v \in Voxels3 |-> IF v[2] = 0 THEN "FILLED" ELSE "EMPTY"]

\* no agent has a request, a route, a segment or a move order
InitComponents ==
    /\ req = [e \in Agents |-> << >>]
    /\ route = [e \in Agents |-> << >>]
    /\ seg = [e \in Agents |-> << >>]
    /\ move = [e \in Agents |-> << >>]
    /\ out = Idle
    /\ issued = 0
    /\ asked = [e \in Agents |-> {}]
    /\ interrupted = [e \in Agents |-> FALSE]
    /\ reach = [e \in Agents |-> [ret |-> FALSE, panic |-> FALSE]]
    /\ search = << >>
    /\ items = << >>
    /\ board = [e \in Agents |-> [item |-> None, move_goals |-> << >>,
                                  state |-> "Executing", task |-> << >>]]
    /\ crashed = FALSE

InitAgents ==
    /\ pos = [e \in Crew |-> <<0, 0, 0>>]
    /\ InitComponents

\* the flat terrain and the NavigationGraph before any partitioner has run
InitTerrain ==
    /\ flags = Flat
    /\ terrain_block = Flat3
    /\ pid = [v \in Voxels |-> None]
    /\ partitions = << >>
    /\ regions = << >>
    /\ cur_id = 0
    /\ cur_region_id = 0
    /\ partition_of = [v \in Voxels3 |-> None]
    /\ merge_call = [a |-> None, b |-> None, partition_id |-> None,
                     region_id |-> None]
    /\ last = [kind |-> "init", chunk_idx |-> 0]
    /\ rebuilds = 0
    /\ edits = 0
    /\ edited = [c \in Chunks |-> FALSE]

\* the flat world before any partitioner has run
InitWorld ==
    /\ InitTerrain
    /\ pg_partitions = << >>
    /\ pg_cur_id = 0

InitNav ==
    /\ revision \in {"NavigationGraph", "PartitionGraph"}
    /\ InitAgents
    /\ InitWorld

NextNav ==
    \/ \E c \in Chunks : partition(c)
    \/ \E v \in Voxels, m \in Masks : EditVoxel(v, m)
    \/ pg_partition
    \/ \E v \in Voxels3, b \in {"EMPTY", "FILLED"} : EditBlock(v, b)

SpecNav == InitNav /\ [][NextNav]_vars

-----------------------------------------------------------------------------
(* The ids of the PartitionGraph *)

\* the creations made before and after the counter comes to its last value
MaxCreates == 3

\* PartitionGraph::create_partition called for a chunk.  `self.cur_id += 1`
\* on the last u16 panics in a build with overflow checks and wraps to 0
\* otherwise.
pg_create(chunk_idx) ==
    /\ revision = "PartitionGraph"
    /\ ~crashed
    /\ pg_cur_id >= U16 - 1 - MaxCreates \/ pg_cur_id < MaxCreates
    /\ \E overflow_checks \in BOOLEAN :
           IF overflow_checks /\ pg_cur_id = U16 - 1
           THEN /\ crashed' = TRUE
                /\ last' = [kind |-> "panic", chunk_idx |-> chunk_idx]
                /\ UNCHANGED pg_vars
           ELSE /\ \E g \in {pg_create_partition(Graph, chunk_idx)} :
                       /\ pg_partitions' = g.partitions
                       /\ pg_cur_id' = g.cur_id
                /\ partition_of' = partition_of
                /\ last' = [kind |-> "create_partition", chunk_idx |-> chunk_idx]
                /\ crashed' = crashed
    /\ UNCHANGED <<flags, terrain_block, ng_vars, revision, board,
                   merge_call, rebuilds, edits,
                   edited, pos, req, route, seg, move, out, issued, asked,
                   interrupted, reach, search, items>>

\* a PartitionGraph that has handed out all ids but the last MaxCreates, to
\* the partitions of a world larger than the terrain at hand
InitIds ==
    /\ revision = "PartitionGraph"
    /\ InitAgents
    /\ InitTerrain
    /\ pg_cur_id = U16 - 1 - MaxCreates
    /\ pg_partitions =
           [id \in 1 .. (U16 - 1 - MaxCreates) |->
               [chunk_idx |-> 0, neighbors |-> {}, is_computed |-> TRUE,
                blocks |-> << >>]]

NextIds == \E c \in Chunks : pg_create(c)

SpecIds == InitIds /\ [][NextIds]_vars

-----------------------------------------------------------------------------
(* The pathfinder on a partitioned world *)

\* the requests handed to an agent: destinations and capability mask
Requests ==
    { [goals |-> <<<<3, 0, 1>>>>, flags |-> WALK],
      [goals |-> <<<<1, 0, 1>>, <<3, 0, 0>>>>, flags |-> WALK],
      [goals |-> <<<<3, 0, 1>>>>, flags |-> WALK + FLY],
      [goals |-> <<<<2, 0, 0>>>>, flags |-> WALK],
      [goals |-> << >>, flags |-> WALK] }

\* the agent carries none of the pathfinder's components
idle(e) ==
    req[e] = << >> /\ route[e] = << >> /\ seg[e] = << >> /\ move[e] = << >>

\* a PathfindRequest is inserted on an agent
IssueRequest(e, r) ==
    /\ ~crashed
    /\ issued < MaxRequests
    /\ req' = [req EXCEPT ![e] = <<r>>]
    /\ issued' = issued + 1
    /\ asked' = [asked EXCEPT ![e] = @ \cup {r}]
    /\ interrupted' = [interrupted EXCEPT ![e] = @ \/ ~idle(e)]
    /\ last' = [kind |-> "request", chunk_idx |-> 0]
    /\ UNCHANGED <<flags, terrain_block, ng_vars, pg_vars, revision, board,
                   merge_call, rebuilds, edits, edited, pos, route, seg, move, out, reach, search, items, crashed>>

\* pathfinding.rs `pathfinding`
pathfinding ==
    /\ ~crashed
    /\ \E e \in Agents : req[e] # << >>
    /\ \E st \in {pathfinding_loop(
                      [req |-> req, route |-> route, out |-> Idle,
                       panic |-> FALSE],
                      SortedSeq({e \in Agents : req[e] # << >>}))} :
           IF st.panic
           THEN /\ crashed' = TRUE
                /\ last' = [kind |-> "panic", chunk_idx |-> 0]
                /\ UNCHANGED <<req, route, out>>
           ELSE /\ req' = st.req
                /\ route' = st.route
                /\ out' = st.out
                /\ last' = [kind |-> "pathfinding", chunk_idx |-> 0]
                /\ crashed' = crashed
    /\ UNCHANGED <<flags, terrain_block, ng_vars, pg_vars, revision, board,
                   merge_call, rebuilds, edits, edited, pos, seg, move, issued, asked, interrupted,
                   reach, search, items>>

\* pathfinding.rs `path_follow_partition`
path_follow_partition ==
    /\ ~crashed
    /\ \E e \in Agents : route[e] # << >> /\ seg[e] = << >>
    /\ \E st \in {path_follow_partition_loop(
                      [req |-> req, route |-> route, seg |-> seg,
                       out |-> Idle, panic |-> FALSE],
                      SortedSeq({e \in Agents :
                                    route[e] # << >> /\ seg[e] = << >>}))} :
           IF st.panic
           THEN /\ crashed' = TRUE
                /\ last' = [kind |-> "panic", chunk_idx |-> 0]
                /\ UNCHANGED <<req, route, seg, out>>
           ELSE /\ req' = st.req
                /\ route' = st.route
                /\ seg' = st.seg
                /\ out' = st.out
                /\ last' = [kind |-> "path_follow_partition", chunk_idx |-> 0]
                /\ crashed' = crashed
    /\ UNCHANGED <<flags, terrain_block, ng_vars, pg_vars, revision, board,
                   merge_call, rebuilds, edits, edited, pos, move, issued, asked, interrupted,
                   reach, search, items>>

\* pathfinding.rs `path_follow_segment`
path_follow_segment ==
    /\ ~crashed
    /\ \E e \in Agents : seg[e] # << >> /\ move[e] = << >>
    /\ \E st \in {path_follow_segment_loop(
                      [req |-> req, route |-> route, seg |-> seg,
                       move |-> move, out |-> Idle],
                      SortedSeq({e \in Agents :
                                    seg[e] # << >> /\ move[e] = << >>}))} :
           /\ req' = st.req
           /\ route' = st.route
           /\ seg' = st.seg
           /\ move' = st.move
           /\ out' = st.out
    /\ last' = [kind |-> "path_follow_segment", chunk_idx |-> 0]
    /\ UNCHANGED <<flags, terrain_block, ng_vars, pg_vars, revision, board,
                   merge_call, rebuilds, edits, edited, pos, issued, asked, interrupted, reach, search, items,
                   crashed>>

\* a path_follow_block that, for an agent that arrives without a segment,
\* inserts a request for what the agent asked for
path_follow_block_rerequests ==
    /\ ~crashed
    /\ \E e \in Agents : move[e] # << >>
    /\ \E arrive \in [Agents -> BOOLEAN], mid \in [Agents -> Voxels] :
           /\ \A e \in Agents :
                  IF move[e] # << >> /\ ~arrive[e]
                  THEN \A i \in 1..3 :
                           mid[e][i] \in {pos[e][i], move[e][1].target[i]}
                  ELSE mid[e] = pos[e] /\ (arrive[e] <=> move[e] # << >>)
           /\ pos' = [e \in Agents |->
                         IF arrive[e] THEN move[e][1].target ELSE mid[e]]
           /\ move' = [e \in Agents |->
                          IF arrive[e] THEN << >> ELSE move[e]]
           /\ out' = [e \in Agents |->
                         IF arrive[e] THEN "Arrived"
                         ELSE IF move[e] # << >> THEN "Moving" ELSE "Idle"]
           /\ req' = [e \in Agents |->
                         IF arrive[e] /\ seg[e] = << >> /\ asked[e] # {}
                         THEN <<CHOOSE r \in asked[e] : TRUE>> ELSE req[e]]
    /\ last' = [kind |-> "path_follow_block", chunk_idx |-> 0]
    /\ UNCHANGED <<flags, terrain_block, ng_vars, pg_vars, revision, board,
                   merge_call, rebuilds, edits, edited, route, seg, issued,
                   asked, interrupted, reach, search, items, crashed>>

\* pathfinding.rs `path_follow_block`, lines 53-76: an agent with a BlockMove
\* either arrives, and the BlockMove is removed, or advances; the voxel of
\* an agent under way has each coordinate of the voxel left or of the target
path_follow_block ==
    /\ ~crashed
    /\ \E e \in Agents : move[e] # << >>
    /\ \E arrive \in [Agents -> BOOLEAN], mid \in [Agents -> Voxels] :
           /\ \A e \in Agents :
                  IF move[e] # << >> /\ ~arrive[e]
                  THEN \A i \in 1..3 :
                           mid[e][i] \in {pos[e][i], move[e][1].target[i]}
                  ELSE mid[e] = pos[e] /\ (arrive[e] <=> move[e] # << >>)
           /\ pos' = [e \in Agents |->
                         IF arrive[e] THEN move[e][1].target ELSE mid[e]]
           /\ move' = [e \in Agents |->
                          IF arrive[e] THEN << >> ELSE move[e]]
           /\ out' = [e \in Agents |->
                         IF arrive[e] THEN "Arrived"
                         ELSE IF move[e] # << >> THEN "Moving" ELSE "Idle"]
    /\ last' = [kind |-> "path_follow_block", chunk_idx |-> 0]
    /\ UNCHANGED <<flags, terrain_block, ng_vars, pg_vars, revision, board,
                   merge_call, rebuilds, edits, edited, req, route, seg, issued, asked, interrupted,
                   reach, search, items, crashed>>

\* the world of the new partitioner before any chunk has been partitioned
InitPath == InitNav /\ revision = "NavigationGraph"

\* the voxels that are edited while agents are under way
PathEdits == {<<1, 0, 0>>, <<2, 0, 1>>, <<3, 0, 0>>}

NextPath ==
    \/ \E e \in Agents, r \in Requests : IssueRequest(e, r)
    \/ pathfinding
    \/ path_follow_partition
    \/ path_follow_segment
    \/ path_follow_block
    \/ \E c \in Chunks : partition(c)
    \/ \E v \in PathEdits, m \in Masks : EditVoxel(v, m)

SpecPath == InitPath /\ [][NextPath]_vars

-----------------------------------------------------------------------------
(* Items: entities with a Transform that the partitions they lie in list   *)
(* as occupants, and that carry the InPartition of that partition          *)

ItemIds == {1}

agent_vars == <<pos, req, route, seg, move, out, issued, asked, interrupted,
                reach, search>>

\* an item comes into the world at voxel v and is recorded with the
\* partition of v, when v has one
spawn_item(i, v) ==
    /\ revision = "NavigationGraph"
    /\ ~crashed
    /\ i \notin DOMAIN items
    /\ items' = (i :> [alive |-> TRUE, pos |-> v,
                       listed |-> {pid[v]} \ {None},
                       in_partition |-> pid[v],
                       queued |-> << >>]) @@ items
    /\ last' = [kind |-> "spawn", chunk_idx |-> chunk_of(v)]
    /\ UNCHANGED <<flags, terrain_block, ng_vars, pg_vars, revision, board,
                   merge_call, rebuilds, edits, edited, agent_vars, crashed>>

\* the Transform of an item changes: it is carried or dropped elsewhere
move_item(i, v) ==
    /\ ~crashed
    /\ i \in DOMAIN items
    /\ items[i].alive
    /\ items[i].pos # v
    /\ items' = [items EXCEPT ![i].pos = v]
    /\ last' = [kind |-> "move", chunk_idx |-> chunk_of(v)]
    /\ UNCHANGED <<flags, terrain_block, ng_vars, pg_vars, revision, board,
                   merge_call, rebuilds, edits, edited, agent_vars, crashed>>

\* inventory.rs `destroy_items`, lines 52-75, for one DestroyItemEvent: the
\* entity is despawned and taken out of the items of the partition its
\* InPartition names; line 67 panics when the graph has no such partition
destroy_items(i) ==
    /\ ~crashed
    /\ i \in DOMAIN items
    /\ items[i].alive
    /\ IF items[i].in_partition = None
       THEN /\ items' = [items EXCEPT ![i].alive = FALSE]
            /\ last' = [kind |-> "destroy", chunk_idx |-> 0]
            /\ crashed' = crashed
       ELSE IF items[i].in_partition \notin DOMAIN partitions
       THEN /\ items' = [items EXCEPT ![i].alive = FALSE]
            /\ last' = [kind |-> "panic", chunk_idx |-> 0]
            /\ crashed' = TRUE
       ELSE /\ items' = [items EXCEPT ![i].alive = FALSE,
                                      ![i].in_partition = None,
                                      ![i].listed = @ \ {items[i].in_partition}]
            /\ last' = [kind |-> "destroy", chunk_idx |-> 0]
            /\ crashed' = crashed
    /\ UNCHANGED <<flags, terrain_block, ng_vars, pg_vars, revision, board,
                   merge_call, rebuilds, edits, edited, agent_vars>>

NextItems ==
    \/ \E c \in Chunks : partition(c)
    \/ \E v \in PathEdits, m \in {NONE, WALK} : EditVoxel(v, m)
    \/ \E i \in ItemIds, v \in Voxels : spawn_item(i, v)
    \/ \E i \in ItemIds, v \in Voxels : move_item(i, v)
    \/ \E i \in ItemIds : destroy_items(i)

SpecItems == InitPath /\ [][NextItems]_vars

-----------------------------------------------------------------------------
(* The lookups by id of the graph, called with ids the graph has and with  *)
(* an id it does not have                                                  *)

\* the longest block list a call of set_block is made on
MaxBlocks == 6

\* the frame of a call on the PartitionGraph
pg_call_frame ==
    UNCHANGED <<flags, terrain_block, ng_vars, partition_of, pg_cur_id,
                revision, board, merge_call, rebuilds, edits, edited, pos, req,
                route, seg, move, out, issued, asked, interrupted, reach,
                search, items>>

\* PartitionGraph::set_block called from outside, lines 104-108
call_set_block(partition_id, block_idx) ==
    /\ revision = "PartitionGraph"
    /\ ~crashed
    /\ partition_id \in DOMAIN pg_partitions
           => Len(pg_partitions[partition_id].blocks) < MaxBlocks
    /\ pg_partitions' = set_block(Graph, partition_id, block_idx).partitions
    /\ last' = [kind |-> "set_block", chunk_idx |-> 0]
    /\ crashed' = crashed
    /\ pg_call_frame

\* PartitionGraph::set_partition_computed called from outside, lines 98-102
call_set_partition_computed(id, value) ==
    /\ revision = "PartitionGraph"
    /\ ~crashed
    /\ pg_partitions' = set_partition_computed(Graph, id, value).partitions
    /\ last' = [kind |-> "set_partition_computed", chunk_idx |-> 0]
    /\ crashed' = crashed
    /\ pg_call_frame

\* PartitionGraph::set_neighbors called from outside, lines 110-116: the
\* unwraps panic for an id the graph does not have
call_set_neighbors(a_id, b_id) ==
    /\ revision = "PartitionGraph"
    /\ ~crashed
    /\ IF {a_id, b_id} \subseteq DOMAIN pg_partitions
       THEN /\ pg_partitions' = set_neighbors(Graph, a_id, b_id).partitions
            /\ last' = [kind |-> "set_neighbors", chunk_idx |-> 0]
            /\ crashed' = crashed
       ELSE /\ pg_partitions' = pg_partitions
            /\ last' = [kind |-> "panic", chunk_idx |-> 0]
            /\ crashed' = TRUE
    /\ pg_call_frame

\* pathfinding.rs 456-466 and 339-349: the neighbor closure of the region
\* search called for the node v; `vec![]` for a node the graph does not have
call_neighbors(v, request_flags) ==
    /\ revision = "NavigationGraph"
    /\ ~crashed
    /\ search = << >>
    /\ search' = [kind |-> "neighbors", node |-> v,
                  neighbors |-> IF v \in DOMAIN partitions
                                THEN region_neighbors(request_flags)[v]
                                ELSE << >>]
    /\ last' = [kind |-> "neighbors", chunk_idx |-> 0]
    /\ crashed' = crashed
    /\ UNCHANGED <<flags, terrain_block, ng_vars, pg_vars, revision, board,
                   merge_call, rebuilds, edits, edited, pos, req, route, seg,
                   move, out, issued, asked, interrupted, reach, items>>

NextLookup ==
    \/ \E c \in Chunks : partition(c)
    \/ \E v \in PathEdits, m \in {NONE, FLY} : EditVoxel(v, m)
    \/ pg_partition
    \/ \E id \in {1, pg_cur_id + 1}, block_idx \in {0} :
           call_set_block(id, block_idx)
    \/ \E id \in {1, pg_cur_id + 1}, value \in BOOLEAN :
           call_set_partition_computed(id, value)
    \/ \E a_id, b_id \in {1, 2, pg_cur_id + 1} : call_set_neighbors(a_id, b_id)
    \/ \E v \in {1, cur_id + 1}, request_flags \in {WALK, FLY} :
           call_neighbors(v, request_flags)

SpecLookup == InitNav /\ [][NextLookup]_vars

-----------------------------------------------------------------------------
(* Cancellation: the PathfindRequest, PartitionPath and PathSegment of an  *)
(* agent are removed from outside, between two runs of the systems         *)

\* the records of the agents st without those of the agent e
remove_path_state(st, e) ==
    [st EXCEPT !.req[e] = << >>, !.route[e] = << >>, !.seg[e] = << >>]

Cancel(e) ==
    /\ ~crashed
    /\ \E st \in {remove_path_state([req |-> req, route |-> route,
                                        seg |-> seg], e)} :
           /\ req' = st.req
           /\ route' = st.route
           /\ seg' = st.seg
    /\ out' = [Idle EXCEPT ![e] = "Cancelled"]
    /\ last' = [kind |-> "cancel", chunk_idx |-> 0]
    /\ UNCHANGED <<flags, terrain_block, ng_vars, pg_vars, revision, board,
                   merge_call, rebuilds, edits, edited, pos, move, issued,
                   asked, interrupted, reach, search, items, crashed>>

NextCancel ==
    \/ \E e \in Agents, r \in Requests : IssueRequest(e, r)
    \/ pathfinding
    \/ path_follow_partition
    \/ path_follow_segment
    \/ path_follow_block
    \/ \E c \in Chunks : partition(c)
    \/ \E v \in PathEdits, m \in Masks : EditVoxel(v, m)
    \/ \E e \in Agents : Cancel(e)

SpecCancel == InitPath /\ [][NextCancel]_vars

-----------------------------------------------------------------------------
(* The steps of a rebuild that change the graph: the merge of the flood    *)
(* fill and the removal of the partitions of a chunk                       *)

\* lines 96-125 run by the flood fill of the partition of the voxel v for
\* the neighbour n, which lies in the chunk of v, has the mask of v and
\* belongs to another partition of that chunk and mask
merge_step(v, n) ==
    /\ revision = "NavigationGraph"
    /\ ~crashed
    /\ last.kind \notin {"merge_partitions", "delete_partitions_for_chunk"}
    /\ n \in {Neighbors6(v)[i] : i \in 1..6} \cap Voxels
    /\ chunk_of(n) = chunk_of(v)
    /\ flags[v] # NONE /\ flags[n] = flags[v]
    /\ pid[v] \in DOMAIN partitions /\ pid[n] \in DOMAIN partitions
    /\ pid[v] # pid[n]
    /\ partitions[pid[v]].chunk_idx = partitions[pid[n]].chunk_idx
    /\ partitions[pid[v]].flags = partitions[pid[n]].flags
    /\ \E r \in {fill_assigned(
                     [w |-> World, partition_id |-> pid[v],
                      region_id |-> partitions[pid[v]].region_id],
                     chunk_of(v), get_block_flags(v), n)} :
           /\ pid' = r.s.w.pid
           /\ partitions' = r.s.w.partitions
           /\ regions' = r.s.w.regions
           /\ cur_id' = r.s.w.cur_id
           /\ cur_region_id' = r.s.w.cur_region_id
           /\ merge_call' = [a |-> pid[v], b |-> pid[n],
                             partition_id |-> r.s.partition_id,
                             region_id |-> r.s.region_id]
    /\ last' = [kind |-> "merge_partitions", chunk_idx |-> chunk_of(v)]
    /\ UNCHANGED <<flags, terrain_block, pg_vars, revision, board, rebuilds, edits,
                   edited, path_vars>>

\* lines 37-46: the first part of the handling of a PartitionEvent
delete_step(chunk_idx) ==
    /\ revision = "NavigationGraph"
    /\ ~crashed
    /\ last.kind \notin {"merge_partitions", "delete_partitions_for_chunk"}
    /\ \E d \in {delete_partitions_for_chunk(World, chunk_idx)} :
           \E w \in {cleanup_blocks(d.w, chunk_idx,
                                    UNION {c.blocks : c \in d.cleanups})} :
               /\ pid' = w.pid
               /\ partitions' = w.partitions
               /\ regions' = w.regions
               /\ cur_id' = w.cur_id
               /\ cur_region_id' = w.cur_region_id
    /\ last' = [kind |-> "delete_partitions_for_chunk", chunk_idx |-> chunk_idx]
    /\ UNCHANGED <<flags, terrain_block, pg_vars, revision, board,
                   merge_call, rebuilds, edits, edited, path_vars>>

\* the steps are taken from the states between two events, and the states
\* they lead to are left by the rest of the rebuild only
NextGraph ==
    \/ /\ last.kind \notin {"merge_partitions", "delete_partitions_for_chunk"}
       /\ \/ \E c \in Chunks : partition(c)
          \/ \E v \in Voxels, m \in Masks : EditVoxel(v, m)
    \/ \E v \in Voxels, n \in Voxels : merge_step(v, n)
    \/ \E c \in Chunks : delete_step(c)

SpecGraph == InitPath /\ [][NextGraph]_vars

-----------------------------------------------------------------------------
(* The reachability query on a partitioned world *)

\* a planner asks whether the pending request of the agent e can be routed:
\* is_reachable from the partition of the agent to the partitions of the
\* destinations under the mask of the request
reachability(e) ==
    /\ ~crashed
    /\ req[e] # << >>
    /\ get_partition_id(pos[e]) # None
    /\ {get_partition_id(req[e][1].goals[i]) : i \in DOMAIN req[e][1].goals}
           \ {None} # {}
    /\ \E r \in {is_reachable(
                     get_partition_id(pos[e]),
                     {get_partition_id(req[e][1].goals[i]) :
                         i \in DOMAIN req[e][1].goals} \ {None},
                     req[e][1].flags)} :
           IF r.panic
           THEN /\ crashed' = TRUE
                /\ last' = [kind |-> "panic", chunk_idx |-> 0]
                /\ reach' = reach
           ELSE /\ reach' = [reach EXCEPT ![e] = r]
                /\ last' = [kind |-> "is_reachable", chunk_idx |-> 0]
                /\ crashed' = crashed
    /\ UNCHANGED <<flags, terrain_block, ng_vars, pg_vars, revision, board,
                   merge_call, rebuilds, edits, edited, pos, req, route, seg, move, out, issued,
                   asked, interrupted, search, items>>

\* where the agents stand when the queries are made
Starts == {<<0, 0, 0>>, <<1, 0, 1>>}

InitReach ==
    /\ revision = "NavigationGraph"
    /\ pos \in [Crew -> Starts]
    /\ InitComponents
    /\ InitWorld

NextReach ==
    \/ \E e \in Agents, r \in Requests : IssueRequest(e, r)
    \/ \E e \in Agents : reachability(e)
    \/ pathfinding
    \/ \E c \in Chunks : partition(c)
    \/ \E v \in PathEdits, m \in Masks : EditVoxel(v, m)

SpecReach == InitReach /\ [][NextReach]_vars

-----------------------------------------------------------------------------
(* The search taken one expansion at a time.  A search under way holds what *)
(* its caller gave it, the frontier, the cost of every node reached, and    *)
(* the number of expansions made; its result is set when it ends.           *)

\* the terrains searched: walkable but for at most MaxWalls voxels
MaxWalls == 2

SearchTerrains ==
    {[v \in Voxels |-> IF v \in W THEN NONE ELSE WALK] :
        W \in {S \in SUBSET Voxels : Cardinality(S) <= MaxWalls}}

\* the search as its caller starts it
begin_search(kind, start, goals, neighbors, cost, heuristic, max_depth) ==
    [kind |-> kind, start |-> start, goals |-> goals, neighbors |-> neighbors,
     cost |-> cost, heuristic |-> heuristic, max_depth |-> max_depth,
     open |-> <<[node |-> start, g |-> 0, f |-> heuristic[start],
                 path |-> <<start>>]>>,
     best |-> (start :> 0), depth |-> 0, result |-> << >>]

\* one turn of the loop of the search s
astar_step(s) ==
    IF s.open = << >>
    THEN [s EXCEPT !.result = <<[is_success |-> FALSE, path |-> << >>,
                                 why |-> "frontier"]>>]
    ELSE LET expand(i) ==
                 LET e == s.open[i]
                     pushed(t1) == [s EXCEPT !.open = t1.open,
                                             !.best = t1.best,
                                             !.depth = @ + 1]
                 IN  IF e.node \in s.goals
                     THEN [s EXCEPT !.result = <<[is_success |-> TRUE,
                                                  path |-> e.path,
                                                  why |-> "found"]>>]
                     ELSE IF s.depth >= s.max_depth
                     THEN [s EXCEPT !.result = <<[is_success |-> FALSE,
                                                  path |-> << >>,
                                                  why |-> "max_depth"]>>]
                     ELSE CHOOSE r \in
                              {pushed(t1) : t1 \in
                                  {push_neighbors(
                                       [open |-> without(s.open, i),
                                        best |-> s.best],
                                       e, s.neighbors[e.node], 1, s.cost,
                                       s.heuristic)}} : TRUE
         IN  CHOOSE r \in {expand(i) : i \in {least(s.open)}} : TRUE

\* the frame of a search: the world and the agents stay as they are
search_frame ==
    UNCHANGED <<flags, terrain_block, ng_vars, pg_vars, revision, board, merge_call,
                rebuilds, edits, edited, pos, req, route, seg, move, out,
                issued, asked, interrupted, reach, items, crashed>>

\* every chunk has been rebuilt since its last edit and no search is under way
may_search == search = << >> /\ \A c \in Chunks : ~edited[c]

\* lines 452-491: the search of region routing for a requester at start
search_region(start, goals, request_flags) ==
    /\ may_search
    /\ get_partition_id(start) # None
    /\ LET with_partition == SelectSeq(goals,
                                       LAMBDA g : get_partition_id(g) # None)
           goal_partition_ids == {get_partition_id(with_partition[i]) :
                                     i \in DOMAIN with_partition}
       IN  /\ with_partition # << >>
           /\ get_partition_id(start) \notin goal_partition_ids
           /\ search' = begin_search("region", get_partition_id(start),
                                     goal_partition_ids,
                                     region_neighbors(request_flags),
                                     region_cost,
                                     region_heuristic(with_partition),
                                     MaxDepthRegion)
    /\ last' = [kind |-> "search", chunk_idx |-> 0]
    /\ search_frame

\* lines 338-379: the search of is_reachable
search_reachable(start_id, goal_ids, query_flags) ==
    /\ may_search
    /\ start_id \notin goal_ids
    /\ start_id \in DOMAIN partitions
    /\ goal_ids \cap DOMAIN partitions # {}
    /\ search' = begin_search("reachable", start_id, goal_ids,
                              region_neighbors(query_flags), region_cost,
                              reach_heuristic(goal_ids), MaxDepthRegion)
    /\ last' = [kind |-> "search", chunk_idx |-> 0]
    /\ search_frame

\* a search of segments that is given twice the budget
search_segment_twice_budget(start, is_last_partition, goal_positions, next_partition_id, path_flags) ==
    /\ may_search
    /\ goal_positions # << >>
    /\ is_last_partition \/ next_partition_id \in DOMAIN partitions
    /\ search' = begin_search(
                     "segment", start,
                     IF is_last_partition
                     THEN {goal_positions[i] : i \in DOMAIN goal_positions}
                     ELSE {p \in Voxels :
                              get_partition_id(p) = next_partition_id},
                     segment_neighbors(path_flags), segment_cost,
                     segment_heuristic(is_last_partition, goal_positions,
                                       next_partition_id),
                     MaxDepthSegment + MaxDepthSegment)
    /\ last' = [kind |-> "search", chunk_idx |-> 0]
    /\ search_frame

\* lines 203-292: the search of segment resolution for an agent at start
search_segment(start, is_last_partition, goal_positions, next_partition_id, path_flags) ==
    /\ may_search
    /\ goal_positions # << >>
    /\ is_last_partition \/ next_partition_id \in DOMAIN partitions
    /\ search' = begin_search(
                     "segment", start,
                     IF is_last_partition
                     THEN {goal_positions[i] : i \in DOMAIN goal_positions}
                     ELSE {p \in Voxels :
                              get_partition_id(p) = next_partition_id},
                     segment_neighbors(path_flags), segment_cost,
                     segment_heuristic(is_last_partition, goal_positions,
                                       next_partition_id),
                     MaxDepthSegment)
    /\ last' = [kind |-> "search", chunk_idx |-> 0]
    /\ search_frame

\* the search under way makes one turn of its loop
search_step ==
    /\ search # << >>
    /\ search.result = << >>
    /\ search' = astar_step(search)
    /\ last' = [kind |-> "expand", chunk_idx |-> 0]
    /\ search_frame

\* a terrain with its walls, no chunk partitioned yet
InitSearch ==
    /\ revision = "NavigationGraph"
    /\ flags \in SearchTerrains
    /\ terrain_block = Flat3
    /\ pid = [v \in Voxels |-> None]
    /\ partitions = << >>
    /\ regions = << >>
    /\ cur_id = 0
    /\ cur_region_id = 0
    /\ partition_of = [v \in Voxels3 |-> None]
    /\ merge_call = [a |-> None, b |-> None, partition_id |-> None,
                     region_id |-> None]
    /\ last = [kind |-> "init", chunk_idx |-> 0]
    /\ rebuilds = 0
    /\ edits = 0
    /\ edited = [c \in Chunks |-> TRUE]
    /\ pg_partitions = << >>
    /\ pg_cur_id = 0
    /\ InitAgents

NextSearch ==
    \/ \E c \in Chunks : search = << >> /\ edited[c] /\ partition(c)
    \/ \E start \in Voxels, d \in Voxels :
           search_region(start, <<d>>, WALK)
    \/ \E start_id \in DOMAIN partitions, goal_id \in DOMAIN partitions :
           search_reachable(start_id, {goal_id}, WALK)
    \/ \E start \in Voxels, is_last_partition \in BOOLEAN, d \in Voxels,
          next_partition_id \in DOMAIN partitions :
           search_segment(start, is_last_partition, <<d>>, next_partition_id,
                          WALK)
    \/ search_step

SpecSearch == InitSearch /\ [][NextSearch]_vars

\* the loop of a search runs on until it returns
FairSearch == SpecSearch /\ WF_vars(search_step)

-----------------------------------------------------------------------------
(* Two chunks joined by a doorway one voxel wide: the voxels of chunk 0    *)
(* and of chunk 1 meet across two faces, and a wall closes one of them.    *)
(* The terrain is not edited; the systems run in every frame.              *)

\* the walls that leave the crossing from (1,0,0) to (2,0,0) open
DoorWalls == {{<<1, 0, 1>>}, {<<2, 0, 1>>}, {<<1, 0, 1>>, <<2, 0, 1>>}}

DoorStarts == {<<0, 0, 0>>, <<3, 0, 0>>}

DoorGoals == {<<0, 0, 1>>, <<2, 0, 0>>, <<3, 0, 1>>}

DoorRequests == {[goals |-> <<d>>, flags |-> WALK] : d \in DoorGoals}

\* the terrain with its wall, no chunk partitioned yet: every chunk awaits
\* its first rebuild
InitDoor ==
    /\ revision = "NavigationGraph"
    /\ \E W \in DoorWalls :
           flags = [v \in Voxels |-> IF v \in W THEN NONE ELSE WALK]
    /\ terrain_block = Flat3
    /\ pid = [v \in Voxels |-> None]
    /\ partitions = << >>
    /\ regions = << >>
    /\ cur_id = 0
    /\ cur_region_id = 0
    /\ partition_of = [v \in Voxels3 |-> None]
    /\ merge_call = [a |-> None, b |-> None, partition_id |-> None,
                     region_id |-> None]
    /\ last = [kind |-> "init", chunk_idx |-> 0]
    /\ rebuilds = 0
    /\ edits = 0
    /\ edited = [c \in Chunks |-> TRUE]
    /\ pg_partitions = << >>
    /\ pg_cur_id = 0
    /\ pos \in [Crew -> DoorStarts]
    /\ InitComponents

\* no agent has a region route, a segment or a move order
none_under_way ==
    \A e \in Agents : route[e] = << >> /\ seg[e] = << >> /\ move[e] = << >>

\* path_follow_block when every agent with a move order reaches its target
arrive_block == path_follow_block /\ move' = [e \in Agents |-> << >>]

NextDoor ==
    \/ \E e \in Agents, r \in DoorRequests : IssueRequest(e, r)
    \/ pathfinding
    \/ path_follow_partition
    \/ path_follow_segment
    \/ path_follow_block
    \/ \E c \in Chunks : none_under_way /\ partition(c)

SpecDoor == InitDoor /\ [][NextDoor]_vars

\* the systems of the pathfinder run in every frame, and an agent that moves
\* towards a voxel reaches it
FairDoor ==
    /\ SpecDoor
    /\ WF_vars(pathfinding)
    /\ WF_vars(path_follow_partition)
    /\ WF_vars(path_follow_segment)
    /\ WF_vars(arrive_block)

-----------------------------------------------------------------------------
(* A flat platform without obstacles inside one chunk: every voxel of the  *)
(* chunk has the same mask, the other chunk is empty or is a platform of   *)
(* the same mask.  The terrain is not edited.                              *)

\* the voxels of the chunk chunk_idx all have the mask m
platform(chunk_idx, m) == \A v \in ChunkVoxels(chunk_idx) : flags[v] = m

\* the horizontal distance between opposite corners of a platform that
\* fills a chunk
PlatformSpan == chunk_size - 1

PlatformRequests ==
    {[goals |-> <<d>>, flags |-> m] : d \in Voxels, m \in {WALK, FLY}}

\* the platform and an agent on it, no chunk partitioned yet: every chunk
\* awaits its first rebuild
InitPlatform ==
    /\ revision = "NavigationGraph"
    /\ \E c \in Chunks, m \in {WALK, FLY} :
           \E rest \in {NONE, m} :
               flags = [v \in Voxels |-> IF chunk_of(v) = c THEN m ELSE rest]
    /\ terrain_block = Flat3
    /\ pid = [v \in Voxels |-> None]
    /\ partitions = << >>
    /\ regions = << >>
    /\ cur_id = 0
    /\ cur_region_id = 0
    /\ partition_of = [v \in Voxels3 |-> None]
    /\ merge_call = [a |-> None, b |-> None, partition_id |-> None,
                     region_id |-> None]
    /\ last = [kind |-> "init", chunk_idx |-> 0]
    /\ rebuilds = 0
    /\ edits = 0
    /\ edited = [c \in Chunks |-> TRUE]
    /\ pg_partitions = << >>
    /\ pg_cur_id = 0
    /\ pos \in {p \in [Crew -> Voxels] : \A e \in Crew : flags[p[e]] # NONE}
    /\ InitComponents

NextPlatform ==
    \/ \E e \in Agents, r \in PlatformRequests : IssueRequest(e, r)
    \/ pathfinding
    \/ path_follow_partition
    \/ path_follow_segment
    \/ path_follow_block
    \/ \E c \in Chunks : partition(c)

SpecPlatform == InitPlatform /\ [][NextPlatform]_vars

-----------------------------------------------------------------------------
(* Properties of the partitioner *)

is_navigable3(v) == is_navigable(v, <<v[1], v[2] - 1, v[3]>>)

C2_adjacency_symmetric ==
    /\ \A a \in DOMAIN partitions : \A b \in partitions[a].neighbor_ids :
           b \in DOMAIN partitions /\ a \in partitions[b].neighbor_ids
    /\ \A a \in DOMAIN pg_partitions : \A b \in pg_partitions[a].neighbors :
           b \in DOMAIN pg_partitions /\ a \in pg_partitions[b].neighbors

\* linked partitions in a graph that has seen partitions deleted or merged
C2_witness ==
    /\ revision = "NavigationGraph"
    /\ rebuilds >= 2
    /\ cur_id > Cardinality(DOMAIN partitions)
    /\ \E a \in DOMAIN partitions : partitions[a].neighbor_ids # {}

\* C3: in every state reachable by partitioning passes, the block lists of
\* distinct partitions are pairwise disjoint, and a voxel is listed in the
\* blocks of partition p exactly when the voxel's stored partition id is p.
C3_blocks_match_ids ==
    /\ \A p \in DOMAIN partitions : \A v \in Voxels :
           v \in partitions[p].blocks <=> pid[v] = p
    /\ \A p \in DOMAIN pg_partitions : \A v \in Voxels3 :
           (/\ chunk_of(v) = pg_partitions[p].chunk_idx
            /\ \E i \in DOMAIN pg_partitions[p].blocks :
                   pg_partitions[p].blocks[i] = block_of3(v))
           <=> partition_of[v] = p

\* C4: after any sequence of chunk rebuilds no voxel's partition id names a
\* partition absent from the graph, no partition's region id names a region
\* absent from the graph, and no neighbor set names an absent partition.
C4_no_dangling_ids ==
    /\ \A v \in Voxels : pid[v] # None => pid[v] \in DOMAIN partitions
    /\ \A p \in DOMAIN partitions :
           /\ partitions[p].region_id \in DOMAIN regions
           /\ partitions[p].neighbor_ids \subseteq DOMAIN partitions

\* a rebuild that deleted partitions other partitions and voxels referred to
C4_witness ==
    /\ revision = "NavigationGraph"
    /\ last.kind = "partition"
    /\ rebuilds = MaxRebuilds
    /\ edits >= 1
    /\ cur_id > Cardinality(DOMAIN partitions)
    /\ \E v \in ChunkVoxels(last.chunk_idx) : flags[v] = NONE
    /\ \E p \in DOMAIN partitions : partitions[p].neighbor_ids # {}

\* C5: in every state reached by chunk rebuilds, two voxels with the same
\* partition id have the same mask when the terrain of their chunks has not
\* been edited since the chunks were rebuilt.
C5_one_mask_per_partition ==
    \A u, v \in Voxels :
        (/\ ~edited[chunk_of(u)] /\ ~edited[chunk_of(v)]
         /\ pid[u] # None /\ pid[u] = pid[v]) => flags[u] = flags[v]

\* every chunk rebuilt since the last edit, over voxels of both masks lying
\* side by side
C5_witness ==
    /\ revision = "NavigationGraph"
    /\ last.kind = "partition"
    /\ \A c \in Chunks : ~edited[c]
    /\ \E u, v \in Voxels :
           /\ u \in {Neighbors6(v)[i] : i \in 1..6}
           /\ chunk_of(u) = chunk_of(v)
           /\ flags[u] = WALK /\ flags[v] = FLY
           /\ pid[u] # None /\ pid[v] # None

-----------------------------------------------------------------------------
(* Properties of the pathfinder *)

\* the partitions of the destinations of a route or segment record
destination_partitions(goals) ==
    {get_partition_id(goals[i]) : i \in DOMAIN goals} \ {None}

\* the route of agent e starts in the partition the agent stands in, ends in
\* the partition of a destination, and is a single node when the agent
\* stands in such a partition.  A route is consumed from its last element
\* down to its first, so it starts at path[Len(path)] and ends at path[1].
well_routed(e) ==
    /\ route[e] # << >>
    /\ LET p == route[e][1].path
           d == destination_partitions(route[e][1].goals)
       IN  /\ p # << >>
           /\ p[Len(p)] = get_partition_id(pos[e])
           /\ p[1] \in d
           /\ get_partition_id(pos[e]) \in d => p = <<get_partition_id(pos[e])>>

\* C6 as stated: for every request that does not fail with
\* NoReachableDestination (no destination has a partition, or none is
\* reachable in the graph), region routing produces a route from the
\* requester's partition to a destination partition.
C6_route_unless_unreachable ==
    \A e \in Agents :
        (last.kind = "pathfinding"
         /\ out[e] \notin {"Idle", "NoGoalPartition", "NoRoute"})
        => well_routed(e)

\* C6: for every request on which region routing does not fail (with
\* NoStartingPartition, NoReachableDestination or SearchBudgetExceeded), the
\* route produced starts at the requester's current partition and ends at the
\* partition of one of the request's destinations; it is the single node when
\* the requester already stands in a destination partition.
C6_route_endpoints ==
    \A e \in Agents :
        (last.kind = "pathfinding"
         /\ out[e] \notin {"Idle", "NoStartingPartition", "NoGoalPartition",
                           "NoRoute", "RouteBudgetExceeded"})
        => /\ well_routed(e)
           /\ [goals |-> route[e][1].goals, flags |-> route[e][1].flags]
                  \in asked[e]

\* region routing has answered a request with a route of two partitions
C6_witness ==
    \E e \in Agents :
        /\ last.kind = "pathfinding"
        /\ route[e] # << >>
        /\ Len(route[e][1].path) = 2
        /\ route[e][1].path[1] # route[e][1].path[2]

\* C7: every voxel of a segment returned by segment resolution is inside the
\* world and has, when the segment is resolved, a capability mask that
\* intersects the mask of the requester; the voxel the agent stands on when
\* it asks is left out.
C7_segment_voxels_traversable ==
    \A e \in Agents :
        (last.kind = "path_follow_partition" /\ out[e] = "Segment")
        => \A i \in DOMAIN seg[e][1].blocks :
               LET b == seg[e][1].blocks[i]
               IN  b # pos[e]
                   => /\ ~is_oob(b)
                      /\ BitAnd(get_block_flags(b), seg[e][1].flags) # NONE

\* the agent e is handled by path_follow_segment in this step and the next
\* voxel of its segment has no capability in common with its mask
stale_step(e) ==
    /\ seg[e] # << >>
    /\ move[e] = << >>
    /\ seg[e][1].current > 0
    /\ BitAnd(get_block_flags(seg[e][1].blocks[seg[e][1].current]),
              seg[e][1].flags) = NONE
    /\ last'.kind = "path_follow_segment"
    /\ out'[e] # "Idle"

\* C8: when the next voxel of the active segment no longer has a capability
\* mask that intersects the mask of the requester, the step of segment
\* execution issues no move order, removes the segment and the region route
\* of the agent and issues a new request with the destinations and the mask
\* of the request handed in.
C8_stale_segment_replans ==
    [][\A e \in Agents :
          stale_step(e)
          => /\ move'[e] = << >>
             /\ seg'[e] = << >>
             /\ route'[e] = << >>
             /\ req'[e] = <<[goals |-> seg[e][1].goals,
                             flags |-> seg[e][1].flags]>>
             /\ req'[e][1] \in asked[e]]_vars

\* segment execution has met a stale voxel that is not the last of the segment
C8_witness ==
    \E e \in Agents :
        /\ last.kind = "path_follow_segment"
        /\ out[e] = "StaleSegment"
        /\ req[e] # << >>
        /\ req[e][1] \in asked[e]
        /\ route[e] = << >> /\ seg[e] = << >> /\ move[e] = << >>

\* the agent e is handled by region routing in this step and the routing
\* fails
routing_fails(e) ==
    /\ req[e] # << >>
    /\ req[e][1].goals # << >>
    /\ last'.kind = "pathfinding"
    /\ out'[e] # "Idle"
    /\ \/ get_partition_id(pos[e]) = None
       \/ destination_partitions(req[e][1].goals) = {}
       \/ out'[e] \in {"NoRoute", "RouteBudgetExceeded"}

\* C9: when region routing fails (the requester's voxel has no partition, none
\* of the destinations has a partition, the search finds no route or runs
\* out of budget), the request is removed, no region route and no segment is
\* created for the agent and no new request is issued.
C9_routing_failure_ends_request ==
    [][\A e \in Agents :
          routing_fails(e)
          => /\ req'[e] = << >>
             /\ route'[e] = route[e]
             /\ seg'[e] = seg[e]
             /\ move'[e] = move[e]]_vars

\* the region search has run out of its budget
C9_witness ==
    \E e \in Agents :
        /\ last.kind = "pathfinding"
        /\ out[e] = "RouteBudgetExceeded"
        /\ req[e] = << >> /\ route[e] = << >> /\ seg[e] = << >>

\* C10: when the search of the voxels of a leg runs out of its budget, the
\* request ends as failed and no new request is issued for the agent.
C10_segment_budget_not_retried ==
    [][\A e \in Agents :
          (last'.kind = "path_follow_partition"
           /\ out'[e] = "SegmentBudgetExceeded")
          => req'[e] = << >>]_vars

\* C11: the path state of an agent follows the pipeline request, region
\* route, segment, move order: for an agent that is handed requests only
\* while it is idle (the replans of the pathfinder aside), in every reachable
\* state a move order is present only while a segment is present, a segment
\* only while a region route is present, and a pending request is never
\* present together with a region route or a segment.
C11_strict_pipeline ==
    \A e \in Agents :
        ~interrupted[e]
        => /\ move[e] # << >> => seg[e] # << >>
           /\ seg[e] # << >> => route[e] # << >>
           /\ req[e] # << >> => (route[e] = << >> /\ seg[e] = << >>)

\* an agent under way on its segment, past the first step, after an edit of
\* the terrain
C11_witness ==
    \E e \in Agents :
        /\ ~interrupted[e]
        /\ edits >= 1
        /\ move[e] # << >> /\ seg[e] # << >> /\ route[e] # << >>
        /\ seg[e][1].current < Len(seg[e][1].blocks) - 1
        /\ pos[e] # <<0, 0, 0>>

\* the agent e is handled by path_follow_segment in this step, and the
\* cursor of its segment, which is the segment of the last leg of its route,
\* has reached zero
last_leg_done(e) ==
    /\ ~interrupted[e]
    /\ seg[e] # << >>
    /\ move[e] = << >>
    /\ seg[e][1].current = 0
    /\ route[e] # << >>
    /\ route[e][1].current = 0
    /\ last'.kind = "path_follow_segment"
    /\ out'[e] # "Idle"

\* the agent e is handled by path_follow_partition in this step and the
\* cursor of its route has reached zero
route_done(e) ==
    /\ ~interrupted[e]
    /\ route[e] # << >>
    /\ seg[e] = << >>
    /\ route[e][1].current = 0
    /\ last'.kind = "path_follow_partition"
    /\ out'[e] # "Idle"

\* C12: when the cursor of the segment of the last leg reaches zero, the
\* segment is removed and the route is still there; the route is removed by
\* the next step of segment resolution; neither step issues a request; and
\* the last move order of the segment targeted a destination voxel of the
\* request handed in, which is where the agent stands.
C12_arrival ==
    [][\A e \in Agents :
          /\ last_leg_done(e)
             => /\ seg'[e] = << >>
                /\ route'[e] = route[e]
                /\ req'[e] = << >>
                /\ move'[e] = << >>
                /\ \E i \in DOMAIN seg[e][1].goals :
                       seg[e][1].blocks[1] = seg[e][1].goals[i]
                /\ pos[e] = seg[e][1].blocks[1]
                /\ [goals |-> seg[e][1].goals, flags |-> seg[e][1].flags]
                       \in asked[e]
          /\ route_done(e)
             => /\ route'[e] = << >>
                /\ seg'[e] = << >>
                /\ req'[e] = << >>
                /\ move'[e] = << >>
                /\ \E i \in DOMAIN route[e][1].goals :
                       pos[e] = route[e][1].goals[i]]_vars

\* the path state of an agent that walked to a destination has been cleared
C12_witness ==
    \E e \in Agents :
        /\ last.kind = "path_follow_partition"
        /\ out[e] = "Completed"
        /\ idle(e)
        /\ pos[e] # <<0, 0, 0>>
        /\ \E r \in asked[e] : \E i \in DOMAIN r.goals : pos[e] = r.goals[i]

\* C13: the reachability query agrees with region routing: asked for the
\* partition of an agent, the partitions of the destinations of its pending
\* request and the mask of the request, is_reachable answers true exactly
\* when region routing of that request yields a route, the single-node route
\* included.
C13_reachable_iff_routed ==
    \A e \in Agents :
        last.kind = "is_reachable"
        => (reach[e].ret
            <=> pathfinding_entity(e).out \in {"SingleNodeRoute", "Routed"})

\* the voxels of the chunk are grouped in the next state as they are in
\* this one: the same voxels have a partition, the same pairs of voxels share
\* one, and the partitions of the chunk list the same sets of voxels
same_grouping(chunk_idx) ==
    /\ \A u \in ChunkVoxels(chunk_idx) : (pid[u] = None) <=> (pid'[u] = None)
    /\ \A u, v \in ChunkVoxels(chunk_idx) :
           (pid[u] = pid[v]) <=> (pid'[u] = pid'[v])
    /\ {partitions[p].blocks :
            p \in {q \in DOMAIN partitions :
                      partitions[q].chunk_idx = chunk_idx}}
       = {partitions'[p].blocks :
            p \in {q \in DOMAIN partitions' :
                      partitions'[q].chunk_idx = chunk_idx}}

\* the chunk has been rebuilt and none of its voxels was edited since: its
\* partitions are computed, which only a rebuild of the chunk does
rebuilt_unchanged(chunk_idx) ==
    /\ ~edited[chunk_idx]
    /\ \A v \in ChunkVoxels(chunk_idx) :
           flags[v] # NONE
           => pid[v] \in DOMAIN partitions /\ partitions[pid[v]].is_computed

\* C14: a chunk rebuilt a second time, with none of its voxels changed since
\* its first rebuild, has its voxels grouped into partitions as after the
\* first rebuild, whatever the ids of the partitions.
C14_rebuild_deterministic ==
    [][(/\ revision = "NavigationGraph"
        /\ last'.kind = "partition"
        /\ rebuilds' = rebuilds + 1
        /\ rebuilt_unchanged(last'.chunk_idx))
       => same_grouping(last'.chunk_idx)]_vars

\* a chunk of several partitions, of both masks, after the last of the
\* rebuilds, all of which were rebuilds of this chunk
C14_witness ==
    /\ revision = "NavigationGraph"
    /\ last.kind = "partition"
    /\ rebuilds = MaxRebuilds
    /\ edits = MaxEdits
    /\ ~edited[last.chunk_idx]
    /\ \E u, v \in ChunkVoxels(last.chunk_idx) :
           /\ pid[u] # None /\ pid[v] # None /\ pid[u] # pid[v]
           /\ flags[u] # flags[v]
    /\ \A p \in DOMAIN partitions :
           partitions[p].is_computed
           => partitions[p].chunk_idx = last.chunk_idx

\* C15: every id returned by create_partition differs from the id of every
\* partition of the graph, which the ids returned earlier and still referred
\* to are, and is not the reserved value of a voxel without partition.
C15_fresh_ids ==
    [][last'.kind = "create_partition" /\ pg_cur_id' # pg_cur_id
       => /\ pg_cur_id' \notin DOMAIN pg_partitions
          /\ pg_cur_id' # None]_vars

\* C16: merge_partitions(a, b) on two partitions of the same chunk and mask
\* leaves exactly one of the two ids in the graph; the blocks of the
\* survivor are the blocks of both and its neighbors the neighbors of both;
\* every voxel that referred to the other id refers to the survivor; the
\* ids returned are the survivor's partition id and region id.
C16_merge_survivor ==
    [][last'.kind = "merge_partitions"
       => LET a == merge_call'.a
              b == merge_call'.b
              k == merge_call'.partition_id
          IN  /\ k \in {a, b}
              /\ {a, b} \cap DOMAIN partitions' = {k}
              /\ partitions'[k].blocks
                     = partitions[a].blocks \cup partitions[b].blocks
              /\ partitions'[k].neighbor_ids
                     = partitions[a].neighbor_ids \cup partitions[b].neighbor_ids
              /\ \A v \in Voxels :
                     pid'[v] = IF pid[v] \in {a, b} THEN k ELSE pid[v]
              /\ merge_call'.region_id = partitions'[k].region_id
              /\ merge_call'.region_id \in DOMAIN regions'
              /\ k \in regions'[merge_call'.region_id].partition_ids]_vars

\* two partitions with neighbors have been merged
C16_witness ==
    /\ last.kind = "merge_partitions"
    /\ merge_call.partition_id \in DOMAIN partitions
    /\ Cardinality(partitions[merge_call.partition_id].blocks) >= 2
    /\ partitions[merge_call.partition_id].neighbor_ids # {}

\* C17: delete_partitions_for_chunk(c) and the clearing loop of the caller
\* remove every partition of the chunk c and only those: afterwards no
\* partition of c is left, no voxel of c has a partition id, and every
\* partition of another chunk is there with its blocks unchanged.
C17_delete_chunk_only ==
    [][last'.kind = "delete_partitions_for_chunk"
       => LET c == last'.chunk_idx
          IN  /\ \A p \in DOMAIN partitions' : partitions'[p].chunk_idx # c
              /\ \A v \in ChunkVoxels(c) : pid'[v] = None
              /\ \A p \in DOMAIN partitions :
                     partitions[p].chunk_idx # c
                     => /\ p \in DOMAIN partitions'
                        /\ partitions'[p].blocks = partitions[p].blocks
              /\ \A v \in Voxels \ ChunkVoxels(c) : pid'[v] = pid[v]]_vars

\* the partitions of a chunk with voxels of both masks and of the empty mask
\* have been removed while the other chunk keeps linked partitions
C17_witness ==
    /\ last.kind = "delete_partitions_for_chunk"
    /\ cur_id > 0
    /\ DOMAIN partitions # {}
    /\ edits >= 1
    /\ \E v \in ChunkVoxels(last.chunk_idx) : flags[v] = NONE
    /\ \E v \in ChunkVoxels(last.chunk_idx) : flags[v] # NONE

\* every voxel of the world next to the voxel d by a face has the empty mask
enclosed(d) ==
    \A i \in 1..6 :
        Neighbors6(d)[i] \in Voxels => flags[Neighbors6(d)[i]] = NONE

\* no chunk has been edited since it was last partitioned
partitioned_world == \A c \in Chunks : ~edited[c]

\* the pending request of agent e has the single destination d, enclosed by
\* voxels of the empty mask, and the agent stands on another voxel
enclosed_request(e) ==
    /\ req[e] # << >>
    /\ Len(req[e][1].goals) = 1
    /\ enclosed(req[e][1].goals[1])
    /\ pos[e] # req[e][1].goals[1]
    /\ partitioned_world
    /\ get_partition_id(pos[e]) # None

\* C18: a request whose only destination is enclosed by voxels that cannot
\* be navigated, from an agent outside the enclosure on a partitioned world,
\* produces no region route and no segment and ends as a failed request:
\* the step of the pathfinder that handles it removes the request, leaves
\* the agent without a new route or segment, and fails for want of a
\* destination partition or of a route to one (line 493 does not tell an
\* emptied frontier from a spent budget).
C18_enclosed_destination_fails ==
    [][\A e \in Agents :
          (enclosed_request(e) /\ last'.kind = "pathfinding" /\ out'[e] # "Idle")
          => /\ req'[e] = << >>
             /\ route'[e] = route[e]
             /\ seg'[e] = seg[e]
             /\ out'[e] \in {"NoGoalPartition", "NoRoute",
                             "RouteBudgetExceeded"}]_vars

\* the region search from the partition of the agent has emptied its
\* frontier without meeting the partition of the enclosed destination
C18_witness ==
    \E e \in Agents, r \in Requests :
        /\ last.kind = "pathfinding"
        /\ out[e] = "NoRoute"
        /\ asked[e] = {r}
        /\ Len(r.goals) = 1
        /\ enclosed(r.goals[1])
        /\ pos[e] # r.goals[1]
        /\ partitioned_world
        /\ get_partition_id(r.goals[1]) # None
        /\ get_partition_id(pos[e]) # None
        /\ req[e] = << >> /\ route[e] = << >> /\ seg[e] = << >>

\* agent e has a pending request for a destination in the other chunk, and
\* both chunks have been rebuilt
door_request(e) ==
    IF req[e] = << >> THEN FALSE
    ELSE /\ chunk_of(pos[e]) # chunk_of(req[e][1].goals[1])
         /\ partitioned_world
         /\ none_under_way

\* agent e has a region route of at least two nodes
door_route(e) ==
    IF route[e] = << >> THEN FALSE ELSE Len(route[e][1].path) >= 2

\* agent e stands on a destination it asked for, with nothing left to do
door_arrival(e) ==
    /\ idle(e)
    /\ \E r \in asked[e] : pos[e] = r.goals[1]

\* the search of the voxels of a leg of agent e has run out of its budget
door_budget_spent(e) == out[e] = "SegmentBudgetExceeded"

opposite(v) ==
    CHOOSE u \in ChunkVoxels(chunk_of(v)) : u[1] # v[1] /\ u[3] # v[3]

\* the chunk of the voxel v is a platform of a mask that the mask
\* query_flags meets, and it has been rebuilt
on_platform(v, query_flags) ==
    /\ \E m \in {WALK, FLY} :
           platform(chunk_of(v), m) /\ BitAnd(m, query_flags) # NONE
    /\ ~edited[chunk_of(v)]

\* one partition holds the voxels of the chunk chunk_idx, and no other
\* partition is owned by that chunk
single_partition(chunk_idx) ==
    \E p \in DOMAIN partitions :
        /\ partitions[p].blocks = ChunkVoxels(chunk_idx)
        /\ \A v \in ChunkVoxels(chunk_idx) : pid[v] = p
        /\ \A q \in DOMAIN partitions :
               partitions[q].chunk_idx = chunk_idx => q = p

cleared(e) == req[e] = << >> /\ route[e] = << >> /\ seg[e] = << >>

\* C21: the removal of the path records of an agent, at any point of the
\* pipeline, is complete and idempotent: the removal leaves the agent
\* without request, route and segment; from then on, until a new request is
\* handed to the agent, no step of the pathfinder gives it a request, a
\* route, a segment or a new move order; and a second removal leaves the
\* records as the first left them.
C21_cancel_complete_idempotent ==
    [][\A e \in Agents :
          /\ (last'.kind = "cancel" /\ out'[e] = "Cancelled") => cleared(e)'
          /\ (cleared(e) /\ last'.kind # "request")
                 => /\ cleared(e)'
                    /\ move'[e] \in {move[e], << >>}
          /\ LET st == [req |-> req, route |-> route, seg |-> seg]
              IN  remove_path_state(remove_path_state(st, e), e)
                      = remove_path_state(st, e)]_vars

\* the records of an agent under way have been removed while its move order
\* stands
C21_witness ==
    \E e \in Agents :
        /\ last.kind = "cancel"
        /\ out[e] = "Cancelled"
        /\ cleared(e)
        /\ move[e] # << >>
        /\ asked[e] # {}

\* the budget a caller of the search gives it
search_budget(kind) ==
    IF kind = "segment" THEN MaxDepthSegment ELSE MaxDepthRegion

search_ended == IF search = << >> THEN FALSE ELSE search.result # << >>

\* the path p leads from the start of the search s to one of its goals, by
\* steps of its neighbor function; p is held goal first
related_path(s, p) ==
    /\ p # << >>
    /\ p[Len(p)] = s.start
    /\ p[1] \in s.goals
    /\ \A i \in 1 .. (Len(p) - 1) :
           \E k \in DOMAIN s.neighbors[p[i + 1]] :
               s.neighbors[p[i + 1]][k] = p[i]

\* what holds of a search under way or ended
search_outcome ==
    search # << >>
    => /\ search.depth <= search_budget(search.kind)
       /\ search.result # << >>
          => LET r == search.result[1]
             IN  /\ r = astar(search.start, search.goals, search.neighbors,
                              search.cost, search.heuristic, search.max_depth)
                 /\ IF r.is_success
                    THEN related_path(search, r.path)
                    ELSE \/ r.why = "frontier" /\ search.open = << >>
                         \/ /\ r.why = "max_depth"
                            /\ search.depth = search_budget(search.kind)
                            /\ search.open # << >>

\* C22: every search ends, on graphs it exhausts and on graphs larger than
\* its budget: it makes no more expansions than the budget of its caller
\* (MaxDepthRegion for region routing and reachability, MaxDepthSegment for
\* segments), and it returns either a path from the start to a goal whose
\* consecutive nodes are related by the neighbor function, or a failure with
\* the frontier empty or the budget spent
C22_search_terminates ==
    /\ []search_outcome
    /\ (search # << >>) ~> search_ended

C22_witness ==
    /\ search_ended
    /\ search.kind = "segment"
    /\ search.result[1].why = "max_depth"
    /\ search.depth = MaxDepthSegment
    /\ Len(search.open) >= 2

\* u and v share a face
face_adjacent(u, v) ==
    Abs(u[1] - v[1]) + Abs(u[2] - v[2]) + Abs(u[3] - v[3]) = 1

\* C23: partitions are maximal within a chunk: after the rebuild of a chunk,
\* two voxels of that chunk that share a face and have the same non-empty
\* mask have the same partition, and no partition has voxels of two chunks.
\* (partition.rs knows no masks: there the voxels with a mask are the
\* navigable ones, and its pass rebuilds every chunk.)
C23_maximal_within_chunk ==
    /\ (revision = "NavigationGraph" /\ last.kind = "partition") =>
          \A u, v \in ChunkVoxels(last.chunk_idx) :
              (face_adjacent(u, v) /\ flags[u] # NONE /\ flags[u] = flags[v])
              => (pid[u] # None /\ pid[u] = pid[v])
    /\ \A p \in DOMAIN partitions : \A u, v \in partitions[p].blocks :
           chunk_of(u) = chunk_of(v)
    /\ \A u, v \in Voxels :
           (pid[u] # None /\ pid[u] = pid[v]) => chunk_of(u) = chunk_of(v)
    /\ (revision = "PartitionGraph" /\ last.kind = "partition") =>
          \A u, v \in Voxels3 :
              (/\ face_adjacent(u, v) /\ chunk_of(u) = chunk_of(v)
               /\ is_navigable3(u) /\ is_navigable3(v))
              => (partition_of[u] # None /\ partition_of[u] = partition_of[v])
    /\ \A u, v \in Voxels3 :
           (partition_of[u] # None /\ partition_of[u] = partition_of[v])
           => chunk_of(u) = chunk_of(v)

\* a rebuild of a chunk with voxels of two masks, two of the same mask side
\* by side, one of them touching a voxel of that mask in the other chunk
C23_witness ==
    /\ revision = "NavigationGraph"
    /\ last.kind = "partition"
    /\ rebuilds >= 2
    /\ \E u, v, x \in ChunkVoxels(last.chunk_idx) :
           /\ face_adjacent(u, v) /\ flags[u] = flags[v] /\ flags[u] # NONE
           /\ pid[u] = pid[v]
           /\ flags[x] \notin {NONE, flags[u]}
           /\ \E w \in Voxels :
                  /\ chunk_of(w) # last.chunk_idx
                  /\ face_adjacent(u, w)
                  /\ flags[w] = flags[u]
                  /\ pid[w] \notin {None, pid[u]}

\* C24: after the rebuild of a chunk, every navigable voxel v that shares a
\* face with a navigable voxel u of the rebuilt chunk and differs from u in
\* mask or in chunk has a partition, and the partitions of u and v are
\* neighbors of each other, whether v had a partition before the rebuild or
\* the flood fill created one for it.  (The pass of partition.rs rebuilds
\* every chunk and knows chunks only.)
C24_boundary_linked ==
    /\ (revision = "NavigationGraph" /\ last.kind = "partition") =>
          \A u \in ChunkVoxels(last.chunk_idx), v \in Voxels :
              (/\ face_adjacent(u, v)
               /\ flags[u] # NONE /\ flags[v] # NONE
               /\ flags[u] # flags[v] \/ chunk_of(u) # chunk_of(v))
              => /\ pid[u] \in DOMAIN partitions
                 /\ pid[v] \in DOMAIN partitions
                 /\ pid[v] \in partitions[pid[u]].neighbor_ids
                 /\ pid[u] \in partitions[pid[v]].neighbor_ids
    /\ (revision = "PartitionGraph" /\ last.kind = "partition") =>
          \A u, v \in Voxels3 :
              (/\ face_adjacent(u, v)
               /\ is_navigable3(u) /\ is_navigable3(v)
               /\ chunk_of(u) # chunk_of(v))
              => /\ partition_of[u] \in DOMAIN pg_partitions
                 /\ partition_of[v] \in DOMAIN pg_partitions
                 /\ partition_of[v] \in pg_partitions[partition_of[u]].neighbors
                 /\ partition_of[u] \in pg_partitions[partition_of[v]].neighbors

\* the nodes of the path p, held goal first, are partitions of the graph;
\* each is a neighbor of the one it is entered from, and each but the start
\* has a mask that meets the mask query_flags
linked_path(p, query_flags) ==
    /\ \A i \in DOMAIN p : p[i] \in DOMAIN partitions
    /\ \A i \in 1 .. (Len(p) - 1) :
           /\ p[i] \in partitions[p[i + 1]].neighbor_ids
           /\ p[i + 1] \in partitions[p[i]].neighbor_ids
           /\ BitAnd(partitions[p[i]].flags, query_flags) # NONE

\* the path of the search behind the answer of is_reachable to the request
\* of agent e
reachable_path(e) ==
    LET goal_ids == {get_partition_id(req[e][1].goals[i]) :
                        i \in DOMAIN req[e][1].goals} \ {None}
        start_id == get_partition_id(pos[e])
    IN  IF start_id \in goal_ids THEN <<start_id>>
        ELSE astar(start_id, goal_ids, region_neighbors(req[e][1].flags),
                   region_cost, reach_heuristic(goal_ids),
                   MaxDepthRegion).path

\* C25: in the route region routing has just returned, and in the path of
\* the search behind a true answer of is_reachable, each node is linked as a
\* partition neighbor to the node before it, and every node after the start
\* has a mask that meets the mask of the request
C25_route_linked ==
    \A e \in Agents :
        /\ (last.kind = "pathfinding" /\ route[e] # << >>
            /\ out[e] \in {"Routed", "SingleNodeRoute"})
           => linked_path(route[e][1].path, route[e][1].flags)
        /\ (last.kind = "is_reachable" /\ reach[e].ret)
           => linked_path(reachable_path(e), req[e][1].flags)

\* a route of more than one node, through a partition that has a neighbor
\* whose mask the request does not meet
C25_witness ==
    \E e \in Agents :
        /\ last.kind = "pathfinding"
        /\ out[e] = "Routed"
        /\ Len(route[e][1].path) >= 2
        /\ \E i \in DOMAIN route[e][1].path :
               \E n \in partitions[route[e][1].path[i]].neighbor_ids :
                   BitAnd(partitions[n].flags, route[e][1].flags) = NONE

\* C26: after the rebuild of a chunk, every item that a deleted partition of
\* the chunk listed and that still exists is listed by the partition that now
\* has the voxel of the item, by no other, and carries the InPartition of
\* that partition; when the voxel has no partition, no partition lists the
\* item and it carries no InPartition
C26_occupants_rehomed ==
    [][(last'.kind = "partition" /\ rebuilds' # rebuilds)
       => \A i \in DOMAIN items :
              (/\ items[i].alive
               /\ \E p \in items[i].listed :
                      /\ p \in DOMAIN partitions
                      /\ partitions[p].chunk_idx = last'.chunk_idx)
              => IF pid'[items[i].pos] = None
                 THEN /\ items'[i].in_partition = None
                      /\ items'[i].listed = {}
                 ELSE /\ items'[i].in_partition = pid'[items[i].pos]
                      /\ items'[i].listed = {pid'[items[i].pos]}
                      /\ pid'[items[i].pos] \in DOMAIN partitions']_vars

\* an item that was moved since it was recorded has been given the partition
\* of another chunk than the one rebuilt, and the partition that listed it is
\* gone
C26_witness ==
    /\ last.kind = "partition"
    /\ rebuilds >= 2
    /\ \E i \in DOMAIN items :
           /\ items[i].alive
           /\ items[i].in_partition # None
           /\ items[i].listed = {items[i].in_partition}
           /\ pid[items[i].pos] = items[i].in_partition
           /\ chunk_of(items[i].pos) # last.chunk_idx

\* the step from voxel a to voxel b changes two coordinates
diagonal_step(a, b) ==
    Cardinality({i \in 1..3 : a[i] # b[i]}) = 2

\* the voxels reached from a by the move along one axis only of the diagonal
\* step from a to b
orthogonal_components(a, b) ==
    {[i \in 1..3 |-> IF i = k THEN b[i] ELSE a[i]] :
        k \in {i \in 1..3 : a[i] # b[i]}}

\* C27: in a segment that has just been resolved, every diagonal step has
\* both voxels of its orthogonal components traversable under the mask of
\* the requester: no segment cuts a solid corner
C27_no_corner_cut ==
    \A e \in Agents :
        (last.kind = "path_follow_partition" /\ out[e] = "Segment")
        => \A i \in 1 .. (Len(seg[e][1].blocks) - 1) :
               LET a == seg[e][1].blocks[i + 1]
                   b == seg[e][1].blocks[i]
               IN  diagonal_step(a, b)
                   => \A c \in orthogonal_components(a, b) :
                          BitAnd(get_block_flags(c), seg[e][1].flags) # NONE

\* a segment resolved with a diagonal step and with a step along an axis
\* that leads around a voxel the requester cannot enter
C27_witness ==
    \E e \in Agents :
        /\ last.kind = "path_follow_partition"
        /\ out[e] = "Segment"
        /\ \E i \in 1 .. (Len(seg[e][1].blocks) - 1) :
               diagonal_step(seg[e][1].blocks[i + 1], seg[e][1].blocks[i])
        /\ \E i \in 1 .. (Len(seg[e][1].blocks) - 1) :
               LET a == seg[e][1].blocks[i + 1]
                   b == seg[e][1].blocks[i]
               IN  /\ face_adjacent(a, b)
                   /\ \E v \in Voxels :
                          /\ face_adjacent(a, v)
                          /\ face_adjacent(b, v) \/ \E u \in Voxels :
                                 face_adjacent(v, u) /\ face_adjacent(u, b)
                          /\ BitAnd(get_block_flags(v), seg[e][1].flags) = NONE

\* C28: a region route is executed one hop at a time, in route order.  When
\* path_follow_partition resolves a segment for an agent whose route says
\* that the next partition is not the last of the route, the segment ends
\* in a voxel of that next partition and the route advances by one node; the
\* segment ends at a destination only when the next partition is the last.
\* (route.path is held goal first: the node at index 0 is the last partition
\* of the route, and route.current is the index of the partition the agent
\* is in.)
C28_one_hop_at_a_time ==
    [][\A e \in Agents :
          (/\ last'.kind = "path_follow_partition"
           /\ out'[e] = "Segment"
           /\ route[e] # << >>)
          => LET path == route[e][1]
                 next == path.current - 1
             IN  IF next >= 1
                 THEN /\ get_partition_id(seg'[e][1].blocks[1])
                             = path.path[next + 1]
                      /\ route'[e][1].current = next
                 ELSE seg'[e][1].blocks[1]
                          \in {path.goals[i] : i \in DOMAIN path.goals}]_vars

\* C29: a lookup by id that finds no partition aborts the build or query:
\* no call of a mutator of the graph (set_block, set_partition_computed,
\* set_neighbors) and no call of the neighbor enumeration of the region
\* search, made with an id the graph does not have, returns as if it had
\* done its work
C29_missing_reference_aborts ==
    [][/\ \A id \in {1, pg_cur_id + 1} :
              (id \notin DOMAIN pg_partitions /\ call_set_block(id, 0))
              => crashed'
       /\ \A id \in {1, pg_cur_id + 1}, value \in BOOLEAN :
              (/\ id \notin DOMAIN pg_partitions
               /\ call_set_partition_computed(id, value))
              => crashed'
       /\ \A a_id, b_id \in {1, 2, pg_cur_id + 1} :
              (/\ ~({a_id, b_id} \subseteq DOMAIN pg_partitions)
               /\ call_set_neighbors(a_id, b_id))
              => crashed'
       /\ \A v \in {1, cur_id + 1}, request_flags \in {WALK, FLY} :
              (v \notin DOMAIN partitions /\ call_neighbors(v, request_flags))
              => crashed']_vars

\* C30: the rebuild of a chunk changes the partition id of voxels of that
\* chunk, and of voxels of other chunks that had no id and share a face with
\* a navigable voxel of the chunk; every other voxel keeps its id, and every
\* computed partition owned by another chunk keeps its voxels
C30_rebuild_frame ==
    [][(last'.kind = "partition" /\ rebuilds' # rebuilds)
       => /\ \A v \in Voxels \ ChunkVoxels(last'.chunk_idx) :
                 pid'[v] # pid[v]
                 => /\ pid[v] = None
                    /\ \E u \in ChunkVoxels(last'.chunk_idx) :
                           face_adjacent(u, v) /\ flags[u] # NONE
          /\ \A p \in DOMAIN partitions :
                 (/\ partitions[p].chunk_idx # last'.chunk_idx
                  /\ partitions[p].is_computed)
                 => /\ p \in DOMAIN partitions'
                    /\ partitions'[p].blocks = partitions[p].blocks
                    /\ partitions'[p].chunk_idx = partitions[p].chunk_idx]_vars

\* a chunk has been rebuilt again beside a chunk that has a computed
\* partition and a younger partition that is not computed; the ids of the
\* rebuilt chunk are new
C30_witness ==
    /\ revision = "NavigationGraph"
    /\ last.kind = "partition"
    /\ rebuilds = MaxRebuilds
    /\ edits >= 1
    /\ \E p \in DOMAIN partitions :
           /\ partitions[p].chunk_idx # last.chunk_idx
           /\ partitions[p].is_computed
           /\ \E q \in DOMAIN partitions :
                  /\ q > p
                  /\ partitions[q].chunk_idx = partitions[p].chunk_idx
                  /\ ~partitions[q].is_computed
    /\ \A v \in ChunkVoxels(last.chunk_idx) : pid[v] = None \/ pid[v] > 1

\* neighbors with the same mask carry the same region id
same_mask_same_region ==
    \A a \in DOMAIN partitions : \A b \in partitions[a].neighbor_ids :
        (b \in DOMAIN partitions /\ partitions[a].flags = partitions[b].flags)
        => partitions[a].region_id = partitions[b].region_id

\* neighbors with different masks carry different region ids, each region
\* recorded as a neighbor of the other
other_mask_region_neighbors ==
    \A a \in DOMAIN partitions : \A b \in partitions[a].neighbor_ids :
        (b \in DOMAIN partitions /\ partitions[a].flags # partitions[b].flags)
        => LET ra == partitions[a].region_id
               rb == partitions[b].region_id
           IN  /\ ra # rb
               /\ ra \in DOMAIN regions /\ rb \in DOMAIN regions
               /\ rb \in regions[ra].neighbor_ids
               /\ ra \in regions[rb].neighbor_ids

\* the region of every partition exists and lists the partition
region_exists ==
    \A a \in DOMAIN partitions :
        /\ partitions[a].region_id \in DOMAIN regions
        /\ a \in regions[partitions[a].region_id].partition_ids

\* C31: after any sequence of chunk rebuilds, two neighboring partitions
\* with the same mask carry the same region id; two neighboring partitions
\* with different masks carry different region ids and the two regions are
\* recorded as neighbors of each other; the region of every partition
\* exists, also when the partition is the only one of its region.
C31_regions_consistent ==
    revision = "NavigationGraph"
    => /\ same_mask_same_region
       /\ other_mask_region_neighbors
       /\ region_exists

\* rebuilds have left two linked partitions of one mask in two chunks, two
\* linked partitions of different masks, and a region of a single partition
C31_witness ==
    /\ revision = "NavigationGraph"
    /\ last.kind = "partition"
    /\ rebuilds >= 2
    /\ \E a \in DOMAIN partitions : \E b \in partitions[a].neighbor_ids :
           /\ b \in DOMAIN partitions
           /\ partitions[a].flags = partitions[b].flags
           /\ partitions[a].chunk_idx # partitions[b].chunk_idx
    /\ \E a \in DOMAIN partitions : \E b \in partitions[a].neighbor_ids :
           /\ b \in DOMAIN partitions
           /\ partitions[a].flags # partitions[b].flags
    /\ \E r \in DOMAIN regions : Cardinality(regions[r].partition_ids) = 1

\* C32: on terrain that is not edited and a graph that is rebuilt finitely
\* often, every pending request of an agent ends: eventually the agent has
\* neither a request nor a region route, a segment or a move order, having
\* arrived or failed; the pathfinder does not go round request, route,
\* failed search of the segment, request for ever.
C32_request_ends ==
    \A e \in Crew : (req[e] # << >>) ~> idle(e)

-----------------------------------------------------------------------------
(* Two agents on the flat platform, each handed one request: the loops of   *)
(* the pathfinder's systems run over more than one entity                  *)

CrowdStarts == {<<0, 0, 0>>, <<1, 0, 1>>}

\* a destination in the other chunk for the mask of the terrain, the same
\* for a mask that no partition carries alone, and one close by
CrowdRequests ==
    { [goals |-> <<<<3, 0, 1>>>>, flags |-> WALK],
      [goals |-> <<<<3, 0, 1>>>>, flags |-> FLY],
      [goals |-> <<<<1, 0, 0>>>>, flags |-> WALK] }

CrowdEdits == {<<1, 0, 0>>}

\* a PathfindRequest is inserted on an agent that was not asked before
IssueEach(e, r) ==
    /\ ~crashed
    /\ asked[e] = {}
    /\ req' = [req EXCEPT ![e] = <<r>>]
    /\ issued' = issued + 1
    /\ asked' = [asked EXCEPT ![e] = @ \cup {r}]
    /\ interrupted' = [interrupted EXCEPT ![e] = @ \/ ~idle(e)]
    /\ last' = [kind |-> "request", chunk_idx |-> 0]
    /\ UNCHANGED <<flags, terrain_block, ng_vars, pg_vars, revision, board,
                   merge_call, rebuilds, edits, edited, pos, route, seg, move,
                   out, reach, search, items, crashed>>

InitCrowd ==
    /\ revision = "NavigationGraph"
    /\ pos \in [Pair -> CrowdStarts]
    /\ InitComponents
    /\ InitWorld

NextCrowd ==
    \/ \E e \in Agents, r \in CrowdRequests : IssueEach(e, r)
    \/ pathfinding
    \/ path_follow_partition
    \/ path_follow_segment
    \/ path_follow_block
    \/ \E c \in Chunks : issued = 0 /\ partition(c)
    \/ \E v \in CrowdEdits : EditVoxel(v, NONE)

SpecCrowd == InitCrowd /\ [][NextCrowd]_vars

\* C33: within one run of a system of the pathfinder the agents are handled
\* independently: every agent with a pending request is handled by the run
\* of pathfinding, every agent with a region route and no segment by the
\* run of path_follow_partition, and every agent with a segment and no move
\* order by the run of path_follow_segment, whatever the outcome for the
\* agents handled before it (a failed routing, a failed resolution of a
\* segment, a segment found stale).
C33_agents_independent ==
    [][/\ last'.kind = "pathfinding"
          => \A e \in Agents : req[e] # << >> => out'[e] # "Idle"
       /\ last'.kind = "path_follow_partition"
          => \A e \in Agents :
                 (route[e] # << >> /\ seg[e] = << >>) => out'[e] # "Idle"
       /\ last'.kind = "path_follow_segment"
          => \A e \in Agents :
                 (seg[e] # << >> /\ move[e] = << >>) => out'[e] # "Idle"]_vars

-----------------------------------------------------------------------------
\* lines 165-201: the indices of path.path, counted from 0, that the next
\* run of path_follow_partition reads for the route p
route_reads(p) ==
    IF p.current = 0 THEN {}
    ELSE LET cur == p.current - 1
         IN  IF cur <= 1 THEN {} ELSE {cur - 1, cur}

\* lines 84-91: the index of path.blocks, counted from 0, that the next run
\* of path_follow_segment reads for the segment s
segment_reads(s) == IF s.current = 0 THEN {} ELSE {s.current - 1}

\* C34: the cursors of the region route and of the segment never fall below
\* zero, and every element that path following reads lies within its
\* sequence: the index read in the blocks of a segment is one of
\* 0 .. length - 1, and so are the indices read in a region route, for
\* routes and segments of every length.
C34_cursors_in_range ==
    \A e \in Agents :
        /\ route[e] # << >> =>
               /\ route[e][1].current >= 0
               /\ route_reads(route[e][1])
                      \subseteq 0 .. (Len(route[e][1].path) - 1)
        /\ seg[e] # << >> =>
               /\ seg[e][1].current >= 0
               /\ segment_reads(seg[e][1])
                      \subseteq 0 .. (Len(seg[e][1].blocks) - 1)

\* an agent on a region route of three partitions has been ordered to the
\* first voxel of a segment of several voxels
C34_witness ==
    \E e \in Agents :
        /\ route[e] # << >> /\ seg[e] # << >> /\ move[e] # << >>
        /\ Len(route[e][1].path) = 3
        /\ Len(seg[e][1].blocks) >= 2
        /\ seg[e][1].current = Len(seg[e][1].blocks) - 1

-----------------------------------------------------------------------------
(* Items when the commands of a system take effect at the next             *)
(* synchronisation point of the schedule and not when the system returns   *)

\* lines 177-202 with the commands of lines 189 and 199 kept back: the items
\* of the partitions are changed at once, the InPartition of a re-homed item
\* is queued
rehome_queued(it, ids, w) ==
    [i \in DOMAIN it |->
        IF it[i].listed \cap ids = {} \/ ~it[i].alive
        THEN [it[i] EXCEPT !.listed = @ \ ids]
        ELSE IF w.pid[it[i].pos] = None
        THEN [it[i] EXCEPT !.listed = @ \ ids, !.queued = <<None>>]
        ELSE [it[i] EXCEPT !.listed = (@ \ ids) \cup {w.pid[it[i].pos]},
                           !.queued = <<w.pid[it[i].pos]>>]]

\* partitioner.rs `partition`, for one PartitionEvent {chunk_idx}, up to the
\* return of the system
partition_queued(chunk_idx) ==
    /\ revision = "NavigationGraph"
    /\ ~crashed
    /\ rebuilds < MaxRebuilds
    /\ \E w \in {rebuild_chunk(World, chunk_idx)} :
           /\ pid' = w.pid
           /\ partitions' = w.partitions
           /\ regions' = w.regions
           /\ cur_id' = w.cur_id
           /\ cur_region_id' = w.cur_region_id
           /\ items' = rehome_queued(items,
                                     {p \in DOMAIN partitions :
                                         partitions[p].chunk_idx = chunk_idx}, w)
    /\ rebuilds' = rebuilds + 1
    /\ last' = [kind |-> "partition", chunk_idx |-> chunk_idx]
    /\ edited' = [edited EXCEPT ![chunk_idx] = FALSE]
    /\ UNCHANGED <<flags, terrain_block, pg_vars, revision, board,
                   merge_call, edits, pos, req, route, seg, move, out,
                   issued, asked, interrupted, reach, search, crashed>>

\* the queued commands are applied: every item that still exists gets the
\* InPartition queued for it last
apply_deferred ==
    /\ ~crashed
    /\ \E i \in DOMAIN items : items[i].queued # << >>
    /\ items' = [i \in DOMAIN items |->
                    IF items[i].queued = << >> THEN items[i]
                    ELSE IF ~items[i].alive
                    THEN [items[i] EXCEPT !.queued = << >>]
                    ELSE [items[i] EXCEPT !.in_partition = items[i].queued[1],
                                          !.queued = << >>]]
    /\ last' = [kind |-> "apply_deferred", chunk_idx |-> 0]
    /\ UNCHANGED <<flags, terrain_block, ng_vars, pg_vars, revision, board,
                   merge_call, rebuilds, edits, edited, agent_vars, crashed>>

NextQueued ==
    \/ \E c \in Chunks : partition_queued(c)
    \/ apply_deferred
    \/ \E v \in PathEdits, m \in {NONE, WALK} : EditVoxel(v, m)
    \/ \E i \in ItemIds, v \in Voxels : spawn_item(i, v)
    \/ \E i \in ItemIds, v \in Voxels : move_item(i, v)
    \/ \E i \in ItemIds : destroy_items(i)

SpecQueued == InitPath /\ [][NextQueued]_vars

-----------------------------------------------------------------------------
\* C35: the InPartition of an item that exists always names a partition of
\* the graph whose items contain the item, under every interleaving of
\* rebuilds, destroyed items and the application of the commands the systems
\* have issued; destroy_items never meets a missing partition, and an item
\* that was destroyed is in the items of no partition.
C35_back_reference_valid ==
    /\ last.kind # "panic"
    /\ \A i \in DOMAIN items :
           IF items[i].alive
           THEN items[i].in_partition # None
                => /\ items[i].in_partition \in DOMAIN partitions
                   /\ items[i].in_partition \in items[i].listed
           ELSE items[i].listed = {}

-----------------------------------------------------------------------------
(* The task that finds the nearest item: task_find_nearest_item.rs.  The   *)
(* actors are the agents; an actor with the component TaskFindNearestItem  *)
(* has the requested tags in board[e].task.                                *)

SeekItems == {1, 2}

\* inventory.rs, lines 30-34: the tags an item carries
SeekItemTags == {{"Pickaxe"}, {"Pickaxe", "Stone"}}

\* the tags a task asks for
SeekTaskTags == {<<"Pickaxe">>, <<"Pickaxe", "Stone">>}

SeekStarts == {<<0, 0, 0>>, <<1, 0, 0>>}

SeekSpots == {<<0, 0, 1>>, <<1, 0, 1>>, <<2, 0, 0>>, <<3, 0, 0>>}

\* the platform of one mask, the platform with a strip of another mask
\* between its ends, and a platform that forks at (1,0,0): one way ends at
\* (1,0,1), the other leads over (2,0,0) to (3,0,0)
SeekTerrains ==
    { [v \in Voxels |-> WALK],
      [v \in Voxels |-> IF v[1] = 1 THEN FLY ELSE WALK],
      [v \in Voxels |->
          IF v \in {<<1, 0, 0>>, <<3, 0, 0>>} THEN WALK
          ELSE IF v \in {<<1, 0, 1>>, <<2, 0, 0>>} THEN FLY
          ELSE NONE] }

\* inventory.rs, lines 42-44
test_item_tags(all, test) == \A k \in DOMAIN test : test[k] \in all

\* a filter that takes the items that are reserved as well
matching_items_reserved_too(partition_id, tags, its) ==
    {i \in DOMAIN its :
        /\ partition_id \in its[i].listed
        /\ its[i].alive
        /\ test_item_tags(its[i].tags, tags)}

\* lines 104-119: the items of the partition that exist, are not reserved
\* and carry every tag asked for
matching_items(partition_id, tags, its) ==
    {i \in DOMAIN its :
        /\ partition_id \in its[i].listed
        /\ its[i].alive
        /\ its[i].reserved = None
        /\ test_item_tags(its[i].tags, tags)}

\* the neighbor ids in the order of the iteration, ascending or descending
in_turn(S, order) ==
    LET asc == SortedSeq(S)
    IN  IF order = "ascending" THEN asc
        ELSE [k \in 1 .. Len(asc) |-> asc[Len(asc) + 1 - k]]

\* lines 97-131: the loop over the queue; the result is the set of the
\* matching items of the first partition that has any, {} for None
RECURSIVE find_nearest_loop(_, _, _, _, _)
find_nearest_loop(queue, visited, tags, its, order) ==
    IF queue = << >> THEN {}
    ELSE LET partition_id == Head(queue)
             seen == visited \cup {partition_id}
         IN  IF partition_id \notin DOMAIN partitions
             THEN find_nearest_loop(Tail(queue), seen, tags, its, order)
             ELSE IF matching_items(partition_id, tags, its) # {}
             THEN matching_items(partition_id, tags, its)
             ELSE find_nearest_loop(
                      Tail(queue)
                          \o in_turn(partitions[partition_id].neighbor_ids \ seen,
                                     order),
                      seen, tags, its, order)

\* lines 87-134
find_nearest(start_id, tags, its, order) ==
    find_nearest_loop(<<start_id>>, {}, tags, its, order)

\* lines 39-84: the body of the loop for the actor e; st holds the items and
\* the blackboards, the result is the set of the states the body can leave,
\* one for every item that can come first among the items found
task_find_nearest_item_entity(st, e, order) ==
    LET tags   == st.board[e].task[1]
        failed == [st EXCEPT !.board[e].item = None,
                             !.board[e].state = "Failed"]
        start_id == pid[pos[e]]
    IN  IF e \notin DOMAIN pos THEN {failed}
        ELSE IF start_id = None THEN {failed}
        ELSE IF find_nearest(start_id, tags, st.items, order) = {} THEN {failed}
        ELSE {[items |-> [st.items EXCEPT ![i].reserved = e],
               board |-> [st.board EXCEPT
                            ![e].item = i,
                            ![e].move_goals = <<st.items[i].pos>>,
                            ![e].state = "Success"]] :
                 i \in find_nearest(start_id, tags, st.items, order)}

\* line 38: the loop over the behaviors that carry the task
RECURSIVE task_find_nearest_item_loop(_, _, _)
task_find_nearest_item_loop(sts, todo, order) ==
    IF todo = << >> THEN sts
    ELSE task_find_nearest_item_loop(
             UNION {task_find_nearest_item_entity(st, Head(todo), order) :
                       st \in sts},
             Tail(todo), order)

\* task_find_nearest_item.rs `task_find_nearest_item`
task_find_nearest_item ==
    /\ revision = "NavigationGraph"
    /\ ~crashed
    /\ \E e \in Agents : board[e].task # << >>
    /\ \E order \in {"ascending", "descending"} :
           \E st \in task_find_nearest_item_loop(
                         {[items |-> items, board |-> board]},
                         SortedSeq({e \in Agents : board[e].task # << >>}),
                         order) :
               /\ items' = st.items
               /\ board' = st.board
    /\ last' = [kind |-> "task_find_nearest_item", chunk_idx |-> 0]
    /\ UNCHANGED <<flags, terrain_block, ng_vars, pg_vars, revision,
                   merge_call, rebuilds, edits, edited, agent_vars, crashed>>

\* the behavior of the actor e comes to the task with the tags asked for
begin_task(e, tags) ==
    /\ ~crashed
    /\ board[e].task = << >>
    /\ board[e].state = "Executing"
    /\ board' = [board EXCEPT ![e].task = <<tags>>]
    /\ last' = [kind |-> "begin_task", chunk_idx |-> 0]
    /\ UNCHANGED <<flags, terrain_block, ng_vars, pg_vars, revision,
                   merge_call, rebuilds, edits, edited, agent_vars, items,
                   crashed>>

\* an item with its tags comes into the world at voxel v, reserved by none,
\* and is recorded with the partition of v, when v has one
spawn_tagged(i, v, tags) ==
    /\ revision = "NavigationGraph"
    /\ ~crashed
    /\ i \notin DOMAIN items
    /\ items' = (i :> [alive |-> TRUE, pos |-> v,
                       listed |-> {pid[v]} \ {None},
                       in_partition |-> pid[v],
                       queued |-> << >>,
                       tags |-> tags, reserved |-> None]) @@ items
    /\ last' = [kind |-> "spawn", chunk_idx |-> chunk_of(v)]
    /\ UNCHANGED <<flags, terrain_block, ng_vars, pg_vars, revision, board,
                   merge_call, rebuilds, edits, edited, agent_vars, crashed>>

InitSeek ==
    /\ revision = "NavigationGraph"
    /\ flags \in SeekTerrains
    /\ terrain_block = Flat3
    /\ pid = [v \in Voxels |-> None]
    /\ partitions = << >>
    /\ regions = << >>
    /\ cur_id = 0
    /\ cur_region_id = 0
    /\ partition_of = [v \in Voxels3 |-> None]
    /\ merge_call = [a |-> None, b |-> None, partition_id |-> None,
                     region_id |-> None]
    /\ last = [kind |-> "init", chunk_idx |-> 0]
    /\ rebuilds = 0
    /\ edits = 0
    /\ edited = [c \in Chunks |-> TRUE]
    /\ pg_partitions = << >>
    /\ pg_cur_id = 0
    /\ pos \in {p \in [Pair -> SeekStarts] : p[1] = <<0, 0, 0>>}
    /\ InitComponents

\* the chunks are rebuilt once each, then the items come one after the other
NextSeek ==
    \/ \E c \in Chunks : items = << >> /\ edited[c] /\ partition(c)
    \/ \E i \in SeekItems, v \in SeekSpots, tags \in SeekItemTags :
           /\ \A c \in Chunks : ~edited[c]
           /\ \A k \in SeekItems : k < i => k \in DOMAIN items
           /\ spawn_tagged(i, v, tags)
    \/ \E e \in Agents, tags \in SeekTaskTags : begin_task(e, tags)
    \/ task_find_nearest_item

SpecSeek == InitSeek /\ [][NextSeek]_vars

-----------------------------------------------------------------------------
\* the partitions within n steps along the neighbor ids from those of S
RECURSIVE within_hops(_, _)
within_hops(S, n) ==
    IF n = 0 THEN S
    ELSE within_hops(
             S \cup UNION {partitions[p].neighbor_ids \cap DOMAIN partitions :
                              p \in S \cap DOMAIN partitions},
             n - 1)

\* the least number of steps from partition a to a partition that lists the
\* item i, one more than there are partitions when no steps lead there
item_hops(a, i, its) ==
    LET far == Cardinality(DOMAIN partitions) + 1
        N   == {n \in 0 .. far : within_hops({a}, n) \cap its[i].listed # {}}
    IN  IF N = {} THEN far ELSE MinOf(N)

\* the task of actor e has found the item i in the step taken
task_found(e, i) ==
    /\ board'[e].state = "Success"
    /\ board'[e].item = i
    /\ i \in DOMAIN items
    /\ items[i].alive
    /\ items[i].reserved = None
    /\ items'[i].reserved = e
    /\ test_item_tags(items[i].tags, board[e].task[1])
    /\ {j \in DOMAIN items : items[j].reserved = None /\ items'[j].reserved = e}
           = {i}
    /\ \A f \in Agents \ {e} : board[f].task # << >> => board'[f].item # i
    /\ \A j \in DOMAIN items :
           (/\ items[j].alive
            /\ items[j].reserved = None
            /\ test_item_tags(items[j].tags, board[e].task[1])
            /\ items'[j].reserved = None \/ items'[j].reserved >= e)
           => item_hops(pid[pos[e]], i, items)
                  <= item_hops(pid[pos[e]], j, items)

\* the task of actor e has failed in the step taken
task_failed(e) ==
    /\ board'[e].state = "Failed"
    /\ board'[e].item = None
    /\ \A i \in DOMAIN items : items'[i].reserved = e => items[i].reserved = e

\* C36: a run of the task that finds the nearest item gives every actor that
\* carries the task either an item that was reserved by none, carries every
\* tag asked for and lies in a partition no further, in steps between
\* neighbors, from the partition of the actor than any other such item still
\* to be had, and reserves it for this actor alone, before the next actor is
\* served; or it fails, reserves nothing and leaves no item on the
\* blackboard.  An item that is reserved stays with the actor that has it:
\* no item is given to two actors, in one run or in several.
C36_reservation_exclusive ==
    [][last'.kind = "task_find_nearest_item"
       => /\ \A i \in DOMAIN items :
                 items[i].reserved # None
                 => items'[i].reserved = items[i].reserved
          /\ \A e \in Agents :
                 board[e].task # << >>
                 => \/ task_failed(e)
                    \/ \E i \in DOMAIN items : task_found(e, i)]_vars

\* one run has served two actors that asked for the same tags: the first has
\* the item in its own partition, the second an item two partitions away
C36_witness ==
    /\ last.kind = "task_find_nearest_item"
    /\ board[1].state = "Success" /\ board[2].state = "Success"
    /\ board[1].task = board[2].task
    /\ pos[1] = pos[2]
    /\ board[1].item # board[2].item
    /\ items[board[1].item].reserved = 1
    /\ items[board[2].item].reserved = 2
    /\ item_hops(pid[pos[1]], board[1].item, items) = 0
    /\ item_hops(pid[pos[2]], board[2].item, items) = 2

-----------------------------------------------------------------------------
\* C37: a request without destinations is handled as failed: the run of
\* pathfinding that meets it removes the request, gives the agent no route
\* and does not abort; and a reachability query with no goal partition
\* answers false and does not abort.
C37_empty_goals_fail ==
    [][/\ pathfinding
          => \A e \in Agents :
                 (req[e] # << >> /\ req[e][1].goals = << >>)
                 => /\ ~crashed'
                    /\ req'[e] = << >>
                    /\ route'[e] = route[e]
       /\ \A start_id \in DOMAIN partitions, query_flags \in {WALK, FLY} :
              is_reachable(start_id, {}, query_flags)
                  = [ret |-> FALSE, panic |-> FALSE]]_vars

-----------------------------------------------------------------------------
(* The flood fills of a rebuild, with the positions the closure accepted   *)

\* flood_fill_i32 with the closure of partitioner.rs, keeping in t.log every
\* position the closure accepted and whether that voxel then carried the id
\* of the partition being flooded
RECURSIVE flood_log(_, _, _, _, _)
RECURSIVE flood_neighbors_log(_, _, _, _, _, _)
flood_neighbors_log(nb, i, t, chunk_idx, block, block_flags) ==
    IF i = 0 THEN t
    ELSE LET u == flood_log(nb[i], t, chunk_idx, block, block_flags)
         IN  in_order(u, flood_neighbors_log(nb, i - 1, u, chunk_idx, block,
                                             block_flags))

flood_log(n, t, chunk_idx, block, block_flags) ==
    LET r == fill(t.s, chunk_idx, block, block_flags, n)
    IN  IF ~r.ret THEN [s |-> r.s, log |-> t.log]
        ELSE flood_neighbors_log(
                 Neighbors6(n), 6,
                 [s |-> r.s,
                  log |-> Append(t.log,
                                 [n |-> n,
                                  marked |-> r.s.w.pid[n] = r.s.partition_id])],
                 chunk_idx, block, block_flags)

\* the scan of scan_chunk from block_idx on, with the floods it starts: for
\* each one its seed, its log and the id of the partition when it ends; the
\* world goes on from the flood as in scan_block
RECURSIVE scan_floods(_, _, _, _)
scan_floods(w, chunk_idx, block_idx, floods) ==
    IF block_idx >= chunk_shape_size THEN [w |-> w, floods |-> floods]
    ELSE LET block       == get_block_world_pos(chunk_idx, block_idx)
             block_flags == get_block_flags(block)
             w1          == seed_partition(w, chunk_idx, block, block_flags)
             t           == flood_log(
                                block,
                                [s |-> [w |-> w1, partition_id |-> w1.pid[block],
                                        region_id |->
                                            w1.partitions[w1.pid[block]].region_id],
                                 log |-> << >>],
                                chunk_idx, block, block_flags)
         IN  IF block_flags = NONE
             THEN scan_floods(w, chunk_idx, block_idx + 1, floods)
             ELSE IF w1.partitions[w1.pid[block]].is_computed
             THEN in_order(w1, scan_floods(w1, chunk_idx, block_idx + 1, floods))
             ELSE in_order(
                      t,
                      scan_floods(
                          [t.s.w EXCEPT
                              !.partitions[t.s.partition_id].is_computed = TRUE],
                          chunk_idx, block_idx + 1,
                          Append(floods,
                                 [seed |-> block, log |-> t.log,
                                  started_id |-> w1.pid[block],
                                  partition_id |-> t.s.partition_id])))

\* the floods of the rebuild of the chunk in the world w
rebuild_floods(w, chunk_idx) ==
    LET d  == delete_partitions_for_chunk(w, chunk_idx)
        w1 == cleanup_blocks(d.w, chunk_idx, UNION {c.blocks : c \in d.cleanups})
    IN  scan_floods(w1, chunk_idx, 0, << >>)

\* flood_fill with the closure of partition.rs, keeping the log likewise
RECURSIVE pg_flood_log(_, _, _, _)
RECURSIVE pg_flood_neighbors_log(_, _, _, _, _)
pg_flood_neighbors_log(nb, i, t, chunk_idx, block) ==
    IF i = 0 THEN t
    ELSE LET u == pg_flood_log(nb[i], t, chunk_idx, block)
         IN  in_order(u, pg_flood_neighbors_log(nb, i - 1, u, chunk_idx, block))

pg_flood_log(n, t, chunk_idx, block) ==
    LET r == pg_fill(t.s, chunk_idx, block, n)
    IN  IF ~r.ret THEN [s |-> r.s, log |-> t.log]
        ELSE pg_flood_neighbors_log(
                 Neighbors6(n), 6,
                 [s |-> r.s,
                  log |-> Append(t.log,
                                 [n |-> n,
                                  marked |-> r.s.g.tp[n] = r.s.partition_id])],
                 chunk_idx, block)

\* the pass of pg_scan_world from the k-th block of the world on, with the
\* floods it starts; the graph goes on from the flood as in pg_scan_block
RECURSIVE pg_scan_floods(_, _, _)
pg_scan_floods(g, k, floods) ==
    IF k >= chunk_count * chunk_shape_size3 THEN [g |-> g, floods |-> floods]
    ELSE LET chunk_idx == k \div chunk_shape_size3
             block_idx == k % chunk_shape_size3
             v     == get_block_world_pos3(chunk_idx, block_idx)
             below == <<v[1], wrapping_dec(v[2]), v[3]>>
             g1    == IF g.tp[v] = None
                      THEN LET c == pg_create_partition(g, chunk_idx)
                           IN  set_block(set_partition(c, v, c.cur_id),
                                         c.cur_id, block_idx)
                      ELSE g
             t     == pg_flood_log(
                          v,
                          [s |-> [g |-> g1, partition_id |-> g1.tp[v]],
                           log |-> << >>],
                          chunk_idx, v)
         IN  IF g.tp[v] = None /\ ~is_seed(v, below)
             THEN pg_scan_floods(g, k + 1, floods)
             ELSE IF is_partition_computed(g1, g1.tp[v])
             THEN in_order(g1, pg_scan_floods(g1, k + 1, floods))
             ELSE in_order(
                      t,
                      pg_scan_floods(
                          set_partition_computed(t.s.g, g1.tp[v], TRUE),
                          k + 1,
                          Append(floods,
                                 [seed |-> v, log |-> t.log,
                                  started_id |-> g1.tp[v],
                                  partition_id |-> t.s.partition_id])))

\* in the flood f no voxel but the seed was accepted twice, and every voxel
\* accepted carried the id of the partition flooded
accepted_once(f) ==
    /\ \A a, b \in DOMAIN f.log :
           (a # b /\ f.log[a].n = f.log[b].n) => f.log[a].n = f.seed
    /\ \A a \in DOMAIN f.log : f.log[a].marked

\* C38: every flood fill the partitioner starts comes to an end: in the
\* rebuild of any chunk, and in the pass of partition.rs over the world,
\* started in any state, each flood accepts no voxel but its seed more than
\* once, every voxel accepted carries the id the flooded partition has at
\* that moment (the id of the survivor after a merge), so the log of
\* every flood is finite, the rebuild completes, and the partition every
\* flood ends with is marked as computed.
C38_flood_terminates ==
    /\ revision = "NavigationGraph" =>
           \A c \in Chunks :
               LET r    == rebuild_floods(World, c)
                   done == rebuild_chunk(World, c)
               IN  /\ r.w = done
                   /\ \A k \in DOMAIN r.floods :
                          /\ accepted_once(r.floods[k])
                          /\ r.floods[k].partition_id \in DOMAIN done.partitions
                          /\ done.partitions[r.floods[k].partition_id].is_computed
    /\ revision = "PartitionGraph" =>
           LET r    == pg_scan_floods(Graph, 0, << >>)
               done == pg_scan_world(Graph, 0)
           IN  /\ r.g = done
               /\ \A k \in DOMAIN r.floods :
                      /\ accepted_once(r.floods[k])
                      /\ r.floods[k].partition_id \in DOMAIN done.partitions
                      /\ done.partitions[r.floods[k].partition_id].is_computed

\* the flood f accepted its seed a second time
seed_again(f) ==
    \E a, b \in DOMAIN f.log :
        a # b /\ f.log[a].n = f.seed /\ f.log[b].n = f.seed

\* a chunk was rebuilt, and a rebuild from here starts a flood that accepts
\* its seed twice and another voxel, and ends after a merge under another id
\* than the one it started with
C38_witness ==
    /\ revision = "NavigationGraph"
    /\ last.kind = "partition"
    /\ \E c \in Chunks :
           LET r == rebuild_floods(World, c)
           IN  \E k \in DOMAIN r.floods :
                   /\ seed_again(r.floods[k])
                   /\ Len(r.floods[k].log) >= 3
                   /\ r.floods[k].partition_id # r.floods[k].started_id

====
